---- MODULE Spec2Model ----
(***************************************************************************)
(* NeuroTrace graph editor (src/renderer/src/components/EditorCanvas.tsx   *)
(* and src/renderer/src/App.tsx): the view transform, the node/edge graph, *)
(* the chain-creation state, selection, and the import of a pipeline       *)
(* result.                                                                 *)
(*                                                                         *)
(* JavaScript numbers are modelled as exact rationals <<n, d>> (d > 0, in  *)
(* lowest terms): the rounding of IEEE doubles is not part of the model.   *)
(* A nullable JavaScript value is Null or Some(v).                         *)
(***************************************************************************)
EXTENDS Integers, Sequences, FiniteSets, TLC

\* ---------------------------------------------------------- nullable values
Null == <<>>
Some(v) == <<v>>
Val(o) == o[1]

\* ------------------------------------------------------------------ bounds
\* Largest number of uuidv4() identifiers drawn in one behaviour of the
\* editor, and in one behaviour that also imports pipeline results.
MaxUuid == 4
MaxImportUuid == 2
MaxImportEditUuid == 1
\* Longest seed list and longest point-sequence list of a pipeline result.
MaxSeeds == 1
MaxPaths == 2
\* Longest seed list and point-sequence list of a converted result.
MaxConvertSeeds == 2
MaxConvertPaths == 2
\* Longest run of consecutive clicks on empty canvas.
MaxChain == 4
\* While zooming and panning: the largest numerator and denominator of the
\* view origin's coordinates.
MaxNumerator == 200
MaxDenominator == 2
\* While editing under a moving view: identifiers drawn, and the largest
\* coordinate of the view origin.
MaxPanZoomUuid == 3
MaxPanZoomOffset == 20
\* While panning: the largest coordinate of the view origin, and the largest
\* scale.
MaxPanOffset == 4
MaxPanScale == 2
\* While the ghost line is followed: identifiers drawn, and the largest
\* coordinate of the view origin.
MaxGhostUuid == 3
MaxGhostOffset == 3
\* While the pipeline is run: the applyColorMap calls in flight.
MaxRunRequests == 2
\* While the colour map is changed: the applyColorMap calls in flight.
MaxColorMapRequests == 2
\* While defective edges are drawn: identifiers drawn.
MaxDefectiveUuid == 2

\* --------------------------------------------------------- exact rationals
Abs(n) == IF n < 0 THEN -n ELSE n

RECURSIVE Gcd(_, _)
Gcd(a, b) == IF b = 0 THEN a ELSE Gcd(b, a % b)

\* The rational n/d in lowest terms with a positive denominator (d # 0).
Norm(n, d) ==
    LET g == Gcd(Abs(n), Abs(d))
        s == IF d < 0 THEN -1 ELSE 1
    IN  <<(s * n) \div g, (s * d) \div g>>

Num(n) == <<n, 1>>
RAdd(a, b) == Norm(a[1] * b[2] + b[1] * a[2], a[2] * b[2])
RSub(a, b) == Norm(a[1] * b[2] - b[1] * a[2], a[2] * b[2])
RMul(a, b) == Norm(a[1] * b[1], a[2] * b[2])
RDiv(a, b) == Norm(a[1] * b[2], a[2] * b[1])
RLess(a, b) == a[1] * b[2] < b[1] * a[2]
RLeq(a, b) == a[1] * b[2] <= b[1] * a[2]
MathMax(a, b) == IF RLess(a, b) THEN b ELSE a
MathMin(a, b) == IF RLess(b, a) THEN b ELSE a

\* --------------------------------------------------------------- constants
\* getBoundingClientRect() of the canvas container: it sits right of the
\* w-80 sidebar (320 px) and below the h-14 toolbar (56 px).
RectLeft == 320
RectTop == 56
\* zoomIntensity = 0.001 = 1 / ZoomIntensityInv
ZoomIntensityInv == 1000
\* the scale clamp [0.1, 10] = [1 / MinScaleInv, MaxScale]
MinScaleInv == 10
MaxScale == 10

VARIABLES
    mode,                    \* App: 'view' | 'edit'
    graph,                   \* App: [nodes |-> Seq(Node), edges |-> Seq(Edge)]
    originalImageRaw,        \* App: Null or Some(data URL)
    layers,                  \* App: [original, mask, annotation], each nullable
    originalColorMap,        \* App: layerSettings.originalColorMap
    colorMapRequests,        \* the applyColorMap calls in flight, oldest
                             \* first: Seq([raw, colorMap])
    isPipelineRunning,       \* App
    pipelineError,           \* App: Null or Some(message)
    transform,               \* [x, y, scale], rationals
    isPanning,
    lastPanPoint,            \* Null or Some([x, y]) (client coordinates)
    activeChainStartNodeId,  \* Null or Some(node id)
    mousePos,                \* Null or Some([x, y]) in image coordinates
    selectedEdgeId,
    selectedNodeId,
    contextMenu,             \* Null or Some([x, y, edgeId, nodeId])
    uuidCount,               \* identifiers uuidv4() has handed out so far
    lastEvent                \* the last event that changed the state:
                             \* [name, button, shiftKey, at, target, call, anchor]

\* the program's state
state == <<mode, graph, originalImageRaw, layers, originalColorMap,
           colorMapRequests, isPipelineRunning, pipelineError, transform, isPanning, lastPanPoint,
           activeChainStartNodeId, mousePos, selectedEdgeId, selectedNodeId,
           contextMenu, uuidCount>>

vars == <<state, lastEvent>>

appVars == <<originalImageRaw, layers, originalColorMap, colorMapRequests,
             isPipelineRunning, pipelineError>>

viewVars == <<transform, isPanning, lastPanPoint>>
editVars == <<activeChainStartNodeId, mousePos, selectedEdgeId,
              selectedNodeId, contextMenu>>

\* ------------------------------------------------------------- identifiers
\* uuidv4(): the k-th identifier drawn; never equal to an earlier one.
Uuid(k) == "uuid-" \o ToString(k)

\* ---------------------------------------------------------- sequence tools
Range(s) == {s[i] : i \in DOMAIN s}

\* nodes.find((n) => n.id === id): truthy iff some node has the id
HasNode(nodes, id) == \E i \in DOMAIN nodes : nodes[i].id = id

\* ------------------------------------------------------------ toImageCoords
\* faulty variant: the origin subtracted but the scale not divided out
ImageOfUnscaled(t, relX, relY) ==
    [x |-> RSub(relX, t.x), y |-> RSub(relY, t.y)]

\* the arithmetic of toImageCoords on a position (relX, relY) already taken
\* relative to the container's corner: (rel - transform) / scale
ImageOf(t, relX, relY) ==
    [x |-> RDiv(RSub(relX, t.x), t.scale),
     y |-> RDiv(RSub(relY, t.y), t.scale)]

\* the body of toImageCoords under the transform t
ImageCoords(t, screenX, screenY) ==
    ImageOf(t, Num(screenX - RectLeft), Num(screenY - RectTop))

\* where the canvas layer's style, translate(x, y) scale(scale) about its
\* top-left corner, puts the image point q, relative to the container
CanvasLayerPoint(t, q) ==
    [x |-> RAdd(RMul(q.x, t.scale), t.x),
     y |-> RAdd(RMul(q.y, t.scale), t.y)]

\* toImageCoords(screenX, screenY), reading the current transform
toImageCoords(screenX, screenY) == ImageCoords(transform, screenX, screenY)

\* faulty variant: the new scale without its clamp
NewScaleUnclamped(scale, deltaY) ==
    RMul(scale, Norm(ZoomIntensityInv - deltaY, ZoomIntensityInv))

\* Math.min(Math.max(0.1, scale * (1 - deltaY * zoomIntensity)), 10)
NewScale(scale, deltaY) ==
    MathMin(MathMax(Norm(1, MinScaleInv),
                    RMul(scale, Norm(ZoomIntensityInv - deltaY, ZoomIntensityInv))),
            Num(MaxScale))

\* faulty variant: the origin scaled about the container's corner instead of
\* about the pointer
ZoomedTransformAboutCorner(t, clientX, clientY, deltaY) ==
    LET newScale == NewScale(t.scale, deltaY)
        scaleRatio == RDiv(newScale, t.scale)
    IN  [x |-> RMul(t.x, scaleRatio), y |-> RMul(t.y, scaleRatio),
         scale |-> newScale]

\* the transform handleWheel sets for a wheel event at (clientX, clientY)
ZoomedTransform(t, clientX, clientY, deltaY) ==
    LET newScale == NewScale(t.scale, deltaY)
        mouseX == Num(clientX - RectLeft)
        mouseY == Num(clientY - RectTop)
        scaleRatio == RDiv(newScale, t.scale)
        newX == RSub(mouseX, RMul(RSub(mouseX, t.x), scaleRatio))
        newY == RSub(mouseY, RMul(RSub(mouseY, t.y), scaleRatio))
    IN  [x |-> newX, y |-> newY, scale |-> newScale]

\* ------------------------------------------------------------ graph updates
\* faulty variant: a cleanup that filters nothing
cleanupKeepingAll(currentNodes, currentEdges) == currentNodes

\* cleanupIsolatedNodes(currentNodes, currentEdges)
cleanupIsolatedNodes(currentNodes, currentEdges) ==
    LET connectedNodeIds ==
            {e.sourceId : e \in Range(currentEdges)} \cup
            {e.targetId : e \in Range(currentEdges)}
    IN  SelectSeq(currentNodes, LAMBDA n : n.id \in connectedNodeIds)

\* the updater deleteEdge passes to setGraph
deleteEdgeUpdate(prev, edgeId) ==
    LET newEdges == SelectSeq(prev.edges, LAMBDA e : e.id # edgeId)
        newNodes == cleanupIsolatedNodes(prev.nodes, newEdges)
    IN  [nodes |-> newNodes, edges |-> newEdges]

\* the updater deleteNode passes to setGraph
deleteNodeUpdate(prev, nodeId) ==
    LET newEdges == SelectSeq(prev.edges,
                        LAMBDA e : e.sourceId # nodeId /\ e.targetId # nodeId)
        newNodes == SelectSeq(prev.nodes, LAMBDA n : n.id # nodeId)
    IN  [nodes |-> newNodes, edges |-> newEdges]

\* if (activeChainStartNodeId) { startNodeExists = prev.nodes.find(...) ... }
StartNodeExists(prev, anchor) ==
    anchor # Null /\ HasNode(prev.nodes, Val(anchor))

\* faulty variant: the new edge drawn from the new node back to the anchor
addNodeUpdateReversed(prev, anchor, newNode, edgeId) ==
    LET newNodes == Append(prev.nodes, newNode)
        newEdges == IF StartNodeExists(prev, anchor)
                    THEN Append(prev.edges,
                                [id |-> edgeId, sourceId |-> newNode.id,
                                 targetId |-> Val(anchor), path |-> Null])
                    ELSE prev.edges
    IN  [nodes |-> newNodes, edges |-> newEdges]

\* the updater handleMouseDown passes to setGraph; edgeId is the uuid drawn
\* for the new edge when the chain start node still exists
addNodeUpdate(prev, anchor, newNode, edgeId) ==
    LET newNodes == Append(prev.nodes, newNode)
        newEdges == IF StartNodeExists(prev, anchor)
                    THEN Append(prev.edges,
                                [id |-> edgeId, sourceId |-> Val(anchor),
                                 targetId |-> newNode.id, path |-> Null])
                    ELSE prev.edges
    IN  [nodes |-> newNodes, edges |-> newEdges]

\* faulty variant: the duplicate test in the forward direction only
EdgeExistsForward(prev, a, b) ==
    \E i \in DOMAIN prev.edges :
        prev.edges[i].sourceId = a /\ prev.edges[i].targetId = b

\* prev.edges.some(edge joins a and b in either direction)
EdgeExists(prev, a, b) ==
    \E i \in DOMAIN prev.edges :
        \/ prev.edges[i].sourceId = a /\ prev.edges[i].targetId = b
        \/ prev.edges[i].sourceId = b /\ prev.edges[i].targetId = a

\* faulty variant: the edge appended without the duplicate test
linkUpdateUnchecked(prev, anchor, nodeId, edgeId) ==
    [prev EXCEPT !.edges =
        Append(prev.edges, [id |-> edgeId, sourceId |-> anchor,
                            targetId |-> nodeId, path |-> Null])]

\* the updater handleNodeClick passes to setGraph (anchor is a node id)
linkUpdate(prev, anchor, nodeId, edgeId) ==
    IF EdgeExists(prev, anchor, nodeId)
    THEN prev
    ELSE [prev EXCEPT !.edges =
            Append(prev.edges, [id |-> edgeId, sourceId |-> anchor,
                                targetId |-> nodeId, path |-> Null])]

\* --------------------------------------------------- import of a pipeline result
\* A JSON value of the pipeline result: an array (Arr) or something else.
Arr(items) == [isArray |-> TRUE, items |-> items]
NotArr == [isArray |-> FALSE, items |-> <<>>]

\* `node-${x}-${y}`
NodeIdOf(x, y) == "node-" \o ToString(x) \o "-" \o ToString(y)
\* `edge-${index}`
EdgeIdOf(index) == "edge-" \o ToString(index)

\* faulty variant: a node added for every point, seen before or not
EnsureNodeUnchecked(newNodes, x, y) ==
    Append(newNodes, [id |-> NodeIdOf(x, y), x |-> Num(x), y |-> Num(y)])

\* if (!newNodes[id]) newNodes[id] = { id, x, y }  (keys keep insertion order)
EnsureNode(newNodes, x, y) ==
    IF HasNode(newNodes, NodeIdOf(x, y)) THEN newNodes
    ELSE Append(newNodes, [id |-> NodeIdOf(x, y), x |-> Num(x), y |-> Num(y)])

\* Array.isArray(v) && v.length >= 2
IsPair(v) == v.isArray /\ Len(v.items) >= 2

\* faulty variant: a seed [y, x] read as [x, y]
ProcessSeedsUnswapped(seeds, i, newNodes) ==
    LET RECURSIVE Go(_, _)
        Go(k, acc) ==
            IF k > Len(seeds) THEN acc
            ELSE Go(k + 1,
                    IF IsPair(seeds[k])
                    THEN EnsureNode(acc, seeds[k].items[1], seeds[k].items[2])
                    ELSE acc)
    IN  Go(i, newNodes)

\* result.data.seeds.forEach(...): the nodes after seeds i..Len(seeds)
RECURSIVE ProcessSeeds(_, _, _)
ProcessSeeds(seeds, i, newNodes) ==
    IF i > Len(seeds) THEN newNodes
    ELSE LET seed == seeds[i]
         IN  ProcessSeeds(seeds, i + 1,
                 IF IsPair(seed)
                 THEN EnsureNode(newNodes, seed.items[2], seed.items[1])
                 ELSE newNodes)

\* faulty variant: a sequence with a malformed point loses all its points
PathOfStrict(points, i) ==
    IF \E k \in DOMAIN points : ~IsPair(points[k]) THEN <<>>
    ELSE [k \in 1..(Len(points) - i + 1) |->
            [x |-> points[k + i - 1].items[2], y |-> points[k + i - 1].items[1]]]

\* edgeData.map(point => pair ? {x: point[1], y: point[0]} : null).filter(Boolean)
RECURSIVE PathOf(_, _)
PathOf(points, i) ==
    IF i > Len(points) THEN <<>>
    ELSE IF IsPair(points[i])
    THEN <<[x |-> points[i].items[2], y |-> points[i].items[1]]>> \o PathOf(points, i + 1)
    ELSE PathOf(points, i + 1)

\* faulty variant: every imported edge carries its path, a straight
\* two-point one included
RECURSIVE ProcessEdgesAlwaysWithPath(_, _, _)
ProcessEdgesAlwaysWithPath(edges, i, acc) ==
    IF i > Len(edges) THEN acc
    ELSE LET edgeData == edges[i]
             path == PathOf(edgeData.items, 1)
             startPoint == path[1]
             endPoint == path[Len(path)]
             sourceId == NodeIdOf(startPoint.x, startPoint.y)
             targetId == NodeIdOf(endPoint.x, endPoint.y)
             withNodes == EnsureNode(EnsureNode(acc.nodes, startPoint.x, startPoint.y),
                                     endPoint.x, endPoint.y)
             newEdge == [id |-> EdgeIdOf(i - 1), sourceId |-> sourceId,
                         targetId |-> targetId,
                         path |-> Some([k \in DOMAIN path |->
                                         [x |-> Num(path[k].x), y |-> Num(path[k].y)]])]
         IN  ProcessEdgesAlwaysWithPath(edges, i + 1,
                 IF IsPair(edgeData) /\ Len(path) >= 2
                 THEN [nodes |-> withNodes, edges |-> Append(acc.edges, newEdge)]
                 ELSE acc)

\* result.data.edges.forEach((edgeData, index) => ...): the graph after
\* entries i..Len(edges); entry i has index i - 1
RECURSIVE ProcessEdges(_, _, _)
ProcessEdges(edges, i, acc) ==
    IF i > Len(edges) THEN acc
    ELSE LET edgeData == edges[i]
             path == PathOf(edgeData.items, 1)
             startPoint == path[1]
             endPoint == path[Len(path)]
             sourceId == NodeIdOf(startPoint.x, startPoint.y)
             targetId == NodeIdOf(endPoint.x, endPoint.y)
             withNodes == EnsureNode(EnsureNode(acc.nodes, startPoint.x, startPoint.y),
                                     endPoint.x, endPoint.y)
             newEdge == [id |-> EdgeIdOf(i - 1), sourceId |-> sourceId,
                         targetId |-> targetId,
                         path |-> IF Len(path) > 2
                                  THEN Some([k \in DOMAIN path |->
                                              [x |-> Num(path[k].x), y |-> Num(path[k].y)]])
                                  ELSE Null]
         IN  ProcessEdges(edges, i + 1,
                 IF IsPair(edgeData) /\ Len(path) >= 2
                 THEN [nodes |-> withNodes, edges |-> Append(acc.edges, newEdge)]
                 ELSE acc)

\* the graph handleRunPipeline installs for result.data
ImportedGraph(data) ==
    ProcessEdges(data.edges, 1,
                 [nodes |-> ProcessSeeds(data.seeds, 1, <<>>), edges |-> <<>>])

\* the state of App and EditorCanvas after construction, but for the images
InitEditing ==
    /\ mode = "view"
    /\ graph = [nodes |-> <<>>, edges |-> <<>>]
    /\ isPipelineRunning = FALSE
    /\ pipelineError = Null
    /\ transform = [x |-> Num(0), y |-> Num(0), scale |-> Num(1)]
    /\ isPanning = FALSE
    /\ lastPanPoint = Null
    /\ activeChainStartNodeId = Null
    /\ mousePos = Null
    /\ selectedEdgeId = Null
    /\ selectedNodeId = Null
    /\ contextMenu = Null
    /\ uuidCount = 0
    /\ lastEvent = [name |-> "none", button |-> 0, shiftKey |-> FALSE,
                    at |-> Null, target |-> Null, call |-> "none",
                    anchor |-> Null]

\* App before any upload
NoImages ==
    /\ originalImageRaw = Null
    /\ layers = [original |-> Null, mask |-> Null, annotation |-> Null]
    /\ originalColorMap = "green"
    /\ colorMapRequests = <<>>

Init ==
    /\ NoImages
    /\ InitEditing

\* window.api.applyColorMap(raw, colorMap): the data URL it resolves to
ColorMapped(raw, colorMap) == [raw |-> raw, colorMap |-> colorMap]

\* The state once the user has loaded the three images (the original shown
\* through the initial 'green' colour map) and has done nothing else.
InitLoaded ==
    /\ originalImageRaw = Some("original.png")
    /\ layers = [original |-> Some(ColorMapped("original.png", "green")),
                 mask |-> Some("mask.png"), annotation |-> Some("annotation.png")]
    /\ originalColorMap = "green"
    /\ colorMapRequests = <<>>
    /\ InitEditing

\* ------------------------------------------------------------------ handlers
\* A pointer event: [button, shiftKey, ctrlKey, clientX, clientY].
Event(button, shiftKey, ctrlKey, pt) ==
    [button |-> button, shiftKey |-> shiftKey, ctrlKey |-> ctrlKey,
     clientX |-> pt[1], clientY |-> pt[2]]

\* handleWheel
handleWheel(clientX, clientY, deltaY) ==
    /\ transform' = ZoomedTransform(transform, clientX, clientY, deltaY)
    /\ UNCHANGED <<mode, appVars, graph, isPanning, lastPanPoint, editVars, uuidCount>>

\* deleteEdge(edgeId)
deleteEdge(edgeId) ==
    /\ graph' = deleteEdgeUpdate(graph, edgeId)
    /\ selectedEdgeId' = Null
    /\ contextMenu' = Null
    /\ UNCHANGED <<mode, appVars, viewVars, activeChainStartNodeId, mousePos,
                   selectedNodeId, uuidCount>>

\* faulty variant: node deletion that leaves the chain anchor alone
deleteNodeKeepingChain(nodeId) ==
    /\ graph' = deleteNodeUpdate(graph, nodeId)
    /\ selectedNodeId' = Null
    /\ contextMenu' = Null
    /\ UNCHANGED <<mode, appVars, viewVars, activeChainStartNodeId, mousePos,
                   selectedEdgeId, uuidCount>>

\* deleteNode(nodeId)
deleteNode(nodeId) ==
    /\ graph' = deleteNodeUpdate(graph, nodeId)
    /\ activeChainStartNodeId' =
         IF activeChainStartNodeId = Some(nodeId) THEN Null
         ELSE activeChainStartNodeId
    /\ selectedNodeId' = Null
    /\ contextMenu' = Null
    /\ UNCHANGED <<mode, appVars, viewVars, mousePos, selectedEdgeId, uuidCount>>

\* faulty variant: Delete and Backspace look at the selected edge first
handleKeyDownEdgeFirst(key) ==
    \/ /\ key = "Escape"
       /\ activeChainStartNodeId' = Null
       /\ selectedEdgeId' = Null
       /\ selectedNodeId' = Null
       /\ contextMenu' = Null
       /\ UNCHANGED <<mode, appVars, graph, viewVars, mousePos, uuidCount>>
    \/ /\ key \in {"Delete", "Backspace"}
       /\ IF selectedEdgeId # Null THEN deleteEdge(Val(selectedEdgeId))
          ELSE IF selectedNodeId # Null THEN deleteNode(Val(selectedNodeId))
          ELSE UNCHANGED state

\* faulty variant: Escape closes neither the selection nor the context menu
handleKeyDownKeepingMenu(key) ==
    \/ /\ key = "Escape"
       /\ activeChainStartNodeId' = Null
       /\ UNCHANGED <<mode, appVars, graph, viewVars, mousePos, selectedEdgeId,
                      selectedNodeId, contextMenu, uuidCount>>
    \/ /\ key \in {"Delete", "Backspace"}
       /\ IF selectedNodeId # Null THEN deleteNode(Val(selectedNodeId))
          ELSE IF selectedEdgeId # Null THEN deleteEdge(Val(selectedEdgeId))
          ELSE UNCHANGED state

\* faulty variant: an Escape that clears the selection and the menu but
\* keeps the chain anchor
handleKeyDownKeepingChain(key) ==
    \/ /\ key = "Escape"
       /\ selectedEdgeId' = Null
       /\ selectedNodeId' = Null
       /\ contextMenu' = Null
       /\ UNCHANGED <<mode, appVars, graph, viewVars, activeChainStartNodeId,
                      mousePos, uuidCount>>
    \/ /\ key \in {"Delete", "Backspace"}
       /\ IF selectedNodeId # Null THEN deleteNode(Val(selectedNodeId))
          ELSE IF selectedEdgeId # Null THEN deleteEdge(Val(selectedEdgeId))
          ELSE UNCHANGED state

\* handleKeyDown (the window keydown listener)
handleKeyDown(key) ==
    \/ /\ key = "Escape"
       /\ activeChainStartNodeId' = Null
       /\ selectedEdgeId' = Null
       /\ selectedNodeId' = Null
       /\ contextMenu' = Null
       /\ UNCHANGED <<mode, appVars, graph, viewVars, mousePos, uuidCount>>
    \/ /\ key \in {"Delete", "Backspace"}
       /\ IF selectedNodeId # Null THEN deleteNode(Val(selectedNodeId))
          ELSE IF selectedEdgeId # Null THEN deleteEdge(Val(selectedEdgeId))
          ELSE UNCHANGED state

\* faulty variant: the right button stops the chain in view mode too
handleMouseDownStoppingChainInView(e) ==
    IF e.button = 2
    THEN /\ activeChainStartNodeId' = Null
         /\ UNCHANGED <<mode, appVars, graph, viewVars, mousePos, selectedEdgeId,
                        selectedNodeId, contextMenu, uuidCount>>
    ELSE IF e.button = 1 \/ mode = "view" \/ e.shiftKey \/ e.ctrlKey
    THEN /\ isPanning' = TRUE
         /\ lastPanPoint' = Some([x |-> e.clientX, y |-> e.clientY])
         /\ UNCHANGED <<mode, appVars, graph, transform, editVars, uuidCount>>
    ELSE IF mode = "edit"
    THEN LET coords == toImageCoords(e.clientX, e.clientY)
             newNode == [id |-> Uuid(uuidCount + 1), x |-> coords.x, y |-> coords.y]
             linked == StartNodeExists(graph, activeChainStartNodeId)
         IN  /\ selectedEdgeId' = Null
             /\ selectedNodeId' = Null
             /\ contextMenu' = Null
             /\ graph' = addNodeUpdate(graph, activeChainStartNodeId, newNode,
                                       Uuid(uuidCount + 2))
             /\ uuidCount' = IF linked THEN uuidCount + 2 ELSE uuidCount + 1
             /\ activeChainStartNodeId' = Some(newNode.id)
             /\ UNCHANGED <<mode, appVars, viewVars, mousePos>>
    ELSE UNCHANGED state

\* faulty variant: a click on empty canvas that leaves the selection and
\* the context menu as they were
handleMouseDownKeepingSelection(e) ==
    IF e.button = 2
    THEN /\ activeChainStartNodeId' =
              IF mode = "edit" THEN Null ELSE activeChainStartNodeId
         /\ UNCHANGED <<mode, appVars, graph, viewVars, mousePos, selectedEdgeId,
                        selectedNodeId, contextMenu, uuidCount>>
    ELSE IF e.button = 1 \/ mode = "view" \/ e.shiftKey \/ e.ctrlKey
    THEN /\ isPanning' = TRUE
         /\ lastPanPoint' = Some([x |-> e.clientX, y |-> e.clientY])
         /\ UNCHANGED <<mode, appVars, graph, transform, editVars, uuidCount>>
    ELSE IF mode = "edit"
    THEN LET coords == toImageCoords(e.clientX, e.clientY)
             newNode == [id |-> Uuid(uuidCount + 1), x |-> coords.x, y |-> coords.y]
             linked == StartNodeExists(graph, activeChainStartNodeId)
         IN  /\ UNCHANGED <<selectedEdgeId, selectedNodeId, contextMenu>>
             /\ graph' = addNodeUpdate(graph, activeChainStartNodeId, newNode,
                                       Uuid(uuidCount + 2))
             /\ uuidCount' = IF linked THEN uuidCount + 2 ELSE uuidCount + 1
             /\ activeChainStartNodeId' = Some(newNode.id)
             /\ UNCHANGED <<mode, appVars, viewVars, mousePos>>
    ELSE UNCHANGED state

\* faulty variant: a click that places a node starts a pan as well
handleMouseDownPanningToo(e) ==
    IF e.button = 2
    THEN /\ activeChainStartNodeId' =
              IF mode = "edit" THEN Null ELSE activeChainStartNodeId
         /\ UNCHANGED <<mode, appVars, graph, viewVars, mousePos, selectedEdgeId,
                        selectedNodeId, contextMenu, uuidCount>>
    ELSE IF e.button = 1 \/ mode = "view" \/ e.shiftKey \/ e.ctrlKey
    THEN /\ isPanning' = TRUE
         /\ lastPanPoint' = Some([x |-> e.clientX, y |-> e.clientY])
         /\ UNCHANGED <<mode, appVars, graph, transform, editVars, uuidCount>>
    ELSE IF mode = "edit"
    THEN LET coords == toImageCoords(e.clientX, e.clientY)
             newNode == [id |-> Uuid(uuidCount + 1), x |-> coords.x, y |-> coords.y]
             linked == StartNodeExists(graph, activeChainStartNodeId)
         IN  /\ selectedEdgeId' = Null
             /\ selectedNodeId' = Null
             /\ contextMenu' = Null
             /\ graph' = addNodeUpdate(graph, activeChainStartNodeId, newNode,
                                       Uuid(uuidCount + 2))
             /\ uuidCount' = IF linked THEN uuidCount + 2 ELSE uuidCount + 1
             /\ activeChainStartNodeId' = Some(newNode.id)
             /\ isPanning' = TRUE
             /\ lastPanPoint' = Some([x |-> e.clientX, y |-> e.clientY])
             /\ UNCHANGED <<mode, appVars, transform, mousePos>>
    ELSE UNCHANGED state

\* handleMouseDown (the container's onMouseDown)
handleMouseDown(e) ==
    IF e.button = 2
    THEN /\ activeChainStartNodeId' =
              IF mode = "edit" THEN Null ELSE activeChainStartNodeId
         /\ UNCHANGED <<mode, appVars, graph, viewVars, mousePos, selectedEdgeId,
                        selectedNodeId, contextMenu, uuidCount>>
    ELSE IF e.button = 1 \/ mode = "view" \/ e.shiftKey \/ e.ctrlKey
    THEN /\ isPanning' = TRUE
         /\ lastPanPoint' = Some([x |-> e.clientX, y |-> e.clientY])
         /\ UNCHANGED <<mode, appVars, graph, transform, editVars, uuidCount>>
    ELSE IF mode = "edit"
    THEN LET coords == toImageCoords(e.clientX, e.clientY)
             newNode == [id |-> Uuid(uuidCount + 1), x |-> coords.x, y |-> coords.y]
             linked == StartNodeExists(graph, activeChainStartNodeId)
         IN  /\ selectedEdgeId' = Null
             /\ selectedNodeId' = Null
             /\ contextMenu' = Null
             /\ graph' = addNodeUpdate(graph, activeChainStartNodeId, newNode,
                                       Uuid(uuidCount + 2))
             /\ uuidCount' = IF linked THEN uuidCount + 2 ELSE uuidCount + 1
             /\ activeChainStartNodeId' = Some(newNode.id)
             /\ UNCHANGED <<mode, appVars, viewVars, mousePos>>
    ELSE UNCHANGED state

\* faulty variant: a pan that drags the stored node coordinates along
\* instead of the view origin
handleMouseMoveDraggingNodes(e) ==
    IF isPanning /\ lastPanPoint # Null
    THEN LET dx == e.clientX - Val(lastPanPoint).x
             dy == e.clientY - Val(lastPanPoint).y
         IN  /\ graph' = [graph EXCEPT !.nodes =
                   [i \in DOMAIN graph.nodes |->
                      [graph.nodes[i] EXCEPT !.x = RAdd(@, Num(dx)),
                                             !.y = RAdd(@, Num(dy))]]]
             /\ lastPanPoint' = Some([x |-> e.clientX, y |-> e.clientY])
             /\ UNCHANGED <<mode, appVars, transform, isPanning, editVars,
                            uuidCount>>
    ELSE IF mode = "edit"
    THEN /\ mousePos' = Some(toImageCoords(e.clientX, e.clientY))
         /\ UNCHANGED <<mode, appVars, graph, viewVars, activeChainStartNodeId,
                        selectedEdgeId, selectedNodeId, contextMenu, uuidCount>>
    ELSE UNCHANGED state

\* faulty variant: a pan that measures every movement from the point of the
\* press instead of from the last movement sample
handleMouseMoveFromPressPoint(e) ==
    IF isPanning /\ lastPanPoint # Null
    THEN LET dx == e.clientX - Val(lastPanPoint).x
             dy == e.clientY - Val(lastPanPoint).y
             moved == [transform EXCEPT !.x = RAdd(@, Num(dx)),
                                        !.y = RAdd(@, Num(dy))]
         IN  /\ transform' = moved
             /\ UNCHANGED <<mode, appVars, graph, isPanning, lastPanPoint,
                            editVars, uuidCount>>
    ELSE IF mode = "edit"
    THEN /\ mousePos' = Some(toImageCoords(e.clientX, e.clientY))
         /\ UNCHANGED <<mode, appVars, graph, viewVars, activeChainStartNodeId,
                        selectedEdgeId, selectedNodeId, contextMenu, uuidCount>>
    ELSE UNCHANGED state

\* faulty variant: the ghost position follows the pointer in view mode too
handleMouseMoveTrackingInView(e) ==
    IF isPanning /\ lastPanPoint # Null
    THEN LET dx == e.clientX - Val(lastPanPoint).x
             dy == e.clientY - Val(lastPanPoint).y
             moved == [transform EXCEPT !.x = RAdd(@, Num(dx)),
                                        !.y = RAdd(@, Num(dy))]
         IN  /\ transform' = moved
             /\ lastPanPoint' = Some([x |-> e.clientX, y |-> e.clientY])
             /\ UNCHANGED <<mode, appVars, graph, isPanning, editVars, uuidCount>>
    ELSE /\ mousePos' = Some(toImageCoords(e.clientX, e.clientY))
         /\ UNCHANGED <<mode, appVars, graph, viewVars, activeChainStartNodeId,
                        selectedEdgeId, selectedNodeId, contextMenu, uuidCount>>

\* handleMouseMove
handleMouseMove(e) ==
    IF isPanning /\ lastPanPoint # Null
    THEN LET dx == e.clientX - Val(lastPanPoint).x
             dy == e.clientY - Val(lastPanPoint).y
             moved == [transform EXCEPT !.x = RAdd(@, Num(dx)),
                                        !.y = RAdd(@, Num(dy))]
         IN  /\ transform' = moved
             /\ lastPanPoint' = Some([x |-> e.clientX, y |-> e.clientY])
             /\ UNCHANGED <<mode, appVars, graph, isPanning, editVars, uuidCount>>
    ELSE IF mode = "edit"
    THEN /\ mousePos' = Some(toImageCoords(e.clientX, e.clientY))
         /\ UNCHANGED <<mode, appVars, graph, viewVars, activeChainStartNodeId,
                        selectedEdgeId, selectedNodeId, contextMenu, uuidCount>>
    ELSE UNCHANGED state

\* handleMouseUp (onMouseUp and onMouseLeave)
handleMouseUp ==
    /\ isPanning' = FALSE
    /\ lastPanPoint' = Null
    /\ UNCHANGED <<mode, appVars, graph, transform, editVars, uuidCount>>

\* handleEdgeClick; a press it does not intercept bubbles to the container
handleEdgeClick(e, edgeId) ==
    IF e.button # 0
    THEN handleMouseDown(e)
    ELSE /\ selectedEdgeId' = IF mode = "edit" THEN Some(edgeId) ELSE selectedEdgeId
         /\ UNCHANGED <<mode, appVars, graph, viewVars, activeChainStartNodeId, mousePos,
                        selectedNodeId, contextMenu, uuidCount>>

\* faulty variant: a click on a node that leaves the node selection as it
\* was
handleNodeClickKeepingSelection(e, nodeId) ==
    IF e.button # 0
    THEN handleMouseDown(e)
    ELSE IF mode = "edit"
    THEN LET linking == activeChainStartNodeId # Null
                        /\ activeChainStartNodeId # Some(nodeId)
             added == linking
                      /\ ~EdgeExists(graph, Val(activeChainStartNodeId), nodeId)
         IN  /\ graph' = IF linking
                         THEN linkUpdate(graph, Val(activeChainStartNodeId), nodeId,
                                         Uuid(uuidCount + 1))
                         ELSE graph
             /\ uuidCount' = IF added THEN uuidCount + 1 ELSE uuidCount
             /\ activeChainStartNodeId' = Some(nodeId)
             /\ selectedEdgeId' = Null
             /\ UNCHANGED <<mode, appVars, viewVars, mousePos, contextMenu,
                            selectedNodeId>>
    ELSE UNCHANGED state

\* faulty variant: a click on the chain anchor itself links it too
handleNodeClickSelfLinking(e, nodeId) ==
    IF e.button # 0
    THEN handleMouseDown(e)
    ELSE IF mode = "edit"
    THEN LET linking == activeChainStartNodeId # Null
             added == linking
                      /\ ~EdgeExists(graph, Val(activeChainStartNodeId), nodeId)
         IN  /\ graph' = IF linking
                         THEN linkUpdate(graph, Val(activeChainStartNodeId), nodeId,
                                         Uuid(uuidCount + 1))
                         ELSE graph
             /\ uuidCount' = IF added THEN uuidCount + 1 ELSE uuidCount
             /\ activeChainStartNodeId' = Some(nodeId)
             /\ selectedEdgeId' = Null
             /\ selectedNodeId' = Null
             /\ UNCHANGED <<mode, appVars, viewVars, mousePos, contextMenu>>
    ELSE UNCHANGED state

\* handleNodeClick; a press it does not intercept bubbles to the container
handleNodeClick(e, nodeId) ==
    IF e.button # 0
    THEN handleMouseDown(e)
    ELSE IF mode = "edit"
    THEN LET linking == activeChainStartNodeId # Null
                        /\ activeChainStartNodeId # Some(nodeId)
             added == linking
                      /\ ~EdgeExists(graph, Val(activeChainStartNodeId), nodeId)
         IN  /\ graph' = IF linking
                         THEN linkUpdate(graph, Val(activeChainStartNodeId), nodeId,
                                         Uuid(uuidCount + 1))
                         ELSE graph
             /\ uuidCount' = IF added THEN uuidCount + 1 ELSE uuidCount
             /\ activeChainStartNodeId' = Some(nodeId)
             /\ selectedEdgeId' = Null
             /\ selectedNodeId' = Null
             /\ UNCHANGED <<mode, appVars, viewVars, mousePos, contextMenu>>
    ELSE UNCHANGED state

\* faulty variant: the node's context menu opens in view mode too
handleNodeContextMenuAnyMode(e, nodeId) ==
    /\ selectedNodeId' = Some(nodeId)
    /\ contextMenu' = Some([x |-> e.clientX, y |-> e.clientY,
                            edgeId |-> Null, nodeId |-> Some(nodeId)])

\* handleNodeContextMenu
handleNodeContextMenu(e, nodeId) ==
    IF mode = "edit"
    THEN /\ selectedNodeId' = Some(nodeId)
         /\ contextMenu' = Some([x |-> e.clientX, y |-> e.clientY,
                                 edgeId |-> Null, nodeId |-> Some(nodeId)])
    ELSE UNCHANGED <<selectedNodeId, contextMenu>>

\* handleEdgeContextMenu
handleEdgeContextMenu(e, edgeId) ==
    IF mode = "edit"
    THEN /\ selectedEdgeId' = Some(edgeId)
         /\ contextMenu' = Some([x |-> e.clientX, y |-> e.clientY,
                                 edgeId |-> Some(edgeId), nodeId |-> Null])
    ELSE UNCHANGED <<selectedEdgeId, contextMenu>>

\* ------------------------------------------------------------------- events
\* faulty variant: every edge is drawn, whether its endpoints resolve or not
RenderedUnchecked(edge) == TRUE

\* An edge is drawn, and so can be pressed, when both endpoints resolve.
Rendered(edge) == HasNode(graph.nodes, edge.sourceId) /\ HasNode(graph.nodes, edge.targetId)
NodeIds == {n.id : n \in Range(graph.nodes)}
RenderedEdgeIds == {ed.id : ed \in {d \in Range(graph.edges) : Rendered(d)}}

\* getActiveStartNode: the node the chain anchor names, Null when there is
\* no anchor or no node has its id
getActiveStartNode ==
    IF activeChainStartNodeId = Null THEN Null
    ELSE LET found == {n \in Range(graph.nodes) :
                          n.id = Val(activeChainStartNodeId)}
         IN  IF found = {} THEN Null ELSE Some(CHOOSE n \in found : TRUE)
\* the ghost line drawn from the active node to the pointer, Null when it is
\* not rendered
GhostLine ==
    IF mode = "edit" /\ getActiveStartNode # Null /\ mousePos # Null
    THEN Some([x1 |-> Val(getActiveStartNode).x, y1 |-> Val(getActiveStartNode).y,
               x2 |-> Val(mousePos).x, y2 |-> Val(mousePos).y])
    ELSE Null

\* lastEvent records the event dispatched last among those that changed the
\* program's state: its name, button and shift key, the client position of a
\* pointer event, the node or edge it landed on or deleted (for a pipeline
\* run that succeeded, the result data it delivered), the deletion it
\* called ("deleteNode", "deleteEdge" or "none") and the chain anchor its
\* handler read
Logged(name, e, target, call) ==
    lastEvent' = IF state' = state THEN lastEvent
                 ELSE [name |-> name, button |-> e.button,
                       shiftKey |-> e.shiftKey,
                       at |-> IF "clientX" \in DOMAIN e
                              THEN Some(<<e.clientX, e.clientY>>) ELSE Null,
                       target |-> target,
                       call |-> call, anchor |-> activeChainStartNodeId]
Dispatched(name, e, target) == Logged(name, e, target, "none")
NoPointer == [button |-> 0, shiftKey |-> FALSE]

\* a press of the left or middle button on empty canvas or an image
MouseDownCanvas(e) ==
    /\ e.button \in {0, 1}
    /\ handleMouseDown(e)
    /\ Dispatched("mousedown.canvas", e, Null)

\* a press of the left or middle button on a node's hit circle
MouseDownNode(e, nodeId) ==
    /\ e.button \in {0, 1}
    /\ nodeId \in NodeIds
    /\ handleNodeClick(e, nodeId)
    /\ Dispatched("mousedown.node", e, Some(nodeId))

\* a press of the left or middle button on an edge's hit path
MouseDownEdge(e, edgeId) ==
    /\ e.button \in {0, 1}
    /\ edgeId \in RenderedEdgeIds
    /\ handleEdgeClick(e, edgeId)
    /\ Dispatched("mousedown.edge", e, Some(edgeId))

\* a right-button press on empty canvas: mousedown, then a contextmenu event
\* that the container only prevents
RightClickCanvas(e) ==
    /\ e.button = 2
    /\ handleMouseDown(e)
    /\ Dispatched("rightclick.canvas", e, Null)

\* a right-button press on a node: mousedown reaches handleNodeClick and then
\* the container; the contextmenu event reaches handleNodeContextMenu
RightClickNode(e, nodeId) ==
    /\ e.button = 2
    /\ nodeId \in NodeIds
    /\ activeChainStartNodeId' =
         IF mode = "edit" THEN Null ELSE activeChainStartNodeId
    /\ handleNodeContextMenu(e, nodeId)
    /\ UNCHANGED <<mode, appVars, graph, viewVars, mousePos, selectedEdgeId, uuidCount>>
    /\ Dispatched("rightclick.node", e, Some(nodeId))

\* a right-button press on an edge, likewise
RightClickEdge(e, edgeId) ==
    /\ e.button = 2
    /\ edgeId \in RenderedEdgeIds
    /\ activeChainStartNodeId' =
         IF mode = "edit" THEN Null ELSE activeChainStartNodeId
    /\ handleEdgeContextMenu(e, edgeId)
    /\ UNCHANGED <<mode, appVars, graph, viewVars, mousePos, selectedNodeId, uuidCount>>
    /\ Dispatched("rightclick.edge", e, Some(edgeId))

\* a click on the open context menu's "Delete Edge" button
MenuDeleteEdge ==
    /\ contextMenu # Null
    /\ Val(contextMenu).edgeId # Null
    /\ deleteEdge(Val(Val(contextMenu).edgeId))
    /\ Logged("menu.deleteEdge", NoPointer, Val(contextMenu).edgeId, "deleteEdge")

\* a click on the open context menu's "Delete Node" button
MenuDeleteNode ==
    /\ contextMenu # Null
    /\ Val(contextMenu).nodeId # Null
    /\ deleteNode(Val(Val(contextMenu).nodeId))
    /\ Logged("menu.deleteNode", NoPointer, Val(contextMenu).nodeId, "deleteNode")

\* a key press
KeyDown(key) ==
    /\ handleKeyDown(key)
    /\ IF key = "Escape" THEN Dispatched("keydown.Escape", NoPointer, Null)
       ELSE IF selectedNodeId # Null
       THEN Logged("keydown." \o key, NoPointer, selectedNodeId, "deleteNode")
       ELSE Logged("keydown." \o key, NoPointer, selectedEdgeId, "deleteEdge")

\* the pointer released over, or leaving, the canvas
MouseUp ==
    /\ handleMouseUp
    /\ Dispatched("mouseup", NoPointer, Null)

\* the pointer moved to pt
MouseMove(pt) ==
    /\ handleMouseMove(Event(0, FALSE, FALSE, pt))
    /\ Dispatched("mousemove", Event(0, FALSE, FALSE, pt), Null)

\* the wheel turned by deltaY with the pointer at pt
Wheel(pt, deltaY) ==
    /\ handleWheel(pt[1], pt[2], deltaY)
    /\ Dispatched("wheel", Event(0, FALSE, FALSE, pt), Null)

\* the toolbar's mode buttons: setMode('view'), setMode('edit')
SetMode(m) ==
    /\ mode' = m
    /\ UNCHANGED <<graph, appVars, viewVars, editVars, uuidCount>>
    /\ Dispatched("setMode", NoPointer, Null)

\* handleClearGraph, confirmed
handleClearGraph ==
    /\ graph' = [nodes |-> <<>>, edges |-> <<>>]
    /\ UNCHANGED <<mode, appVars, viewVars, editVars, uuidCount>>
    /\ Dispatched("clear", NoPointer, Null)

\* handleRunPipeline up to its await.  The Run Pipeline button is disabled
\* while a layer is missing or a run is in flight.
RunPipelineEnabled ==
    /\ layers.original # Null /\ layers.mask # Null /\ layers.annotation # Null
    /\ ~isPipelineRunning

handleRunPipeline ==
    /\ RunPipelineEnabled
    /\ IF originalImageRaw = Null \/ layers.mask = Null \/ layers.annotation = Null
       THEN /\ pipelineError' =
                 Some("Please upload all three images (Original, Mask, "
                      \o "Annotation) before running the pipeline.")
            /\ UNCHANGED isPipelineRunning
       ELSE /\ isPipelineRunning' = TRUE
            /\ pipelineError' = Null
    /\ UNCHANGED <<mode, graph, originalImageRaw, layers, originalColorMap,
                   colorMapRequests, viewVars, editVars, uuidCount>>
    /\ Dispatched("runPipeline", NoPointer, Null)

\* handleUpload(type, dataURL), with the colour-map effect that follows a
\* change of originalImageRaw: the raw original is stored and an
\* applyColorMap call for it is started; a mask or annotation is shown as is.
\* Setting the raw original to the value it has changes nothing.
handleUpload(type, dataURL) ==
    /\ IF type = "original"
       THEN /\ originalImageRaw' = Some(dataURL)
            /\ colorMapRequests' =
                 IF originalImageRaw = Some(dataURL) THEN colorMapRequests
                 ELSE Append(colorMapRequests,
                             [raw |-> dataURL, colorMap |-> originalColorMap])
            /\ UNCHANGED layers
       ELSE /\ layers' = [layers EXCEPT ![type] = Some(dataURL)]
            /\ UNCHANGED <<originalImageRaw, colorMapRequests>>
    /\ UNCHANGED <<mode, graph, originalColorMap, isPipelineRunning,
                   pipelineError, viewVars, editVars, uuidCount>>
    /\ Dispatched("upload." \o type, NoPointer, Null)

\* updateColorMap(colorMap), with the colour-map effect that follows a change
\* of layerSettings.originalColorMap: without a raw original the effect
\* returns at once
updateColorMap(colorMap) ==
    /\ originalColorMap' = colorMap
    /\ colorMapRequests' =
         IF originalColorMap = colorMap \/ originalImageRaw = Null
         THEN colorMapRequests
         ELSE Append(colorMapRequests,
                     [raw |-> Val(originalImageRaw), colorMap |-> colorMap])
    /\ UNCHANGED <<mode, graph, originalImageRaw, layers, isPipelineRunning,
                   pipelineError, viewVars, editVars, uuidCount>>
    /\ Dispatched("colorMap", NoPointer, Null)

\* the sequence s without its element i
RemoveAt(s, i) == SubSeq(s, 1, i - 1) \o SubSeq(s, i + 1, Len(s))

\* applyColorMapping after its await: the call in flight at position i has
\* settled, with success && data (ok) or without
ColorMapSettled(i, ok) ==
    /\ i \in DOMAIN colorMapRequests
    /\ colorMapRequests' = RemoveAt(colorMapRequests, i)
    /\ layers' = IF ok
                 THEN [layers EXCEPT !.original =
                         Some(ColorMapped(colorMapRequests[i].raw,
                                          colorMapRequests[i].colorMap))]
                 ELSE layers
    /\ UNCHANGED <<mode, graph, originalImageRaw, originalColorMap,
                   isPipelineRunning, pipelineError, viewVars, editVars,
                   uuidCount>>
    /\ Dispatched(IF ok THEN "colorMapSettled.success" ELSE "colorMapSettled.failure",
                  NoPointer, Null)

\* faulty variant: a run that throws leaves the running flag set
PipelineSettledStuckOnThrow(outcome) ==
    /\ isPipelineRunning
    /\ IF outcome.kind = "success"
       THEN /\ graph' = ImportedGraph(outcome.data)
            /\ UNCHANGED pipelineError
       ELSE /\ pipelineError' =
                 IF outcome.kind = "failure"
                 THEN (IF outcome.error # Null THEN outcome.error
                       ELSE Some("Pipeline execution failed"))
                 ELSE (IF outcome.error # Null THEN outcome.error
                       ELSE Some("Unknown error occurred"))
            /\ UNCHANGED graph
    /\ isPipelineRunning' = (outcome.kind = "throw")
    /\ UNCHANGED <<mode, originalImageRaw, layers, originalColorMap,
                   colorMapRequests, viewVars, editVars, uuidCount>>
    /\ Dispatched("settled." \o outcome.kind, NoPointer,
                  IF outcome.kind = "success" THEN Some(outcome.data) ELSE Null)

\* faulty variant: the converted result appended to the graph in place
PipelineSettledMerging(outcome) ==
    /\ isPipelineRunning
    /\ IF outcome.kind = "success"
       THEN /\ graph' = [nodes |-> graph.nodes \o ImportedGraph(outcome.data).nodes,
                        edges |-> graph.edges \o ImportedGraph(outcome.data).edges]
            /\ UNCHANGED pipelineError
       ELSE /\ pipelineError' =
                 IF outcome.kind = "failure"
                 THEN (IF outcome.error # Null THEN outcome.error
                       ELSE Some("Pipeline execution failed"))
                 ELSE (IF outcome.error # Null THEN outcome.error
                       ELSE Some("Unknown error occurred"))
            /\ UNCHANGED graph
    /\ isPipelineRunning' = FALSE
    /\ UNCHANGED <<mode, originalImageRaw, layers, originalColorMap,
                   colorMapRequests, viewVars, editVars, uuidCount>>
    /\ Dispatched("settled." \o outcome.kind, NoPointer,
                  IF outcome.kind = "success" THEN Some(outcome.data) ELSE Null)

\* handleRunPipeline after its await: window.api.runPipeline settled with
\* outcome [kind, data, error], kind being "success" (success && data),
\* "failure" (a result without success or data) or "throw"
PipelineSettled(outcome) ==
    /\ isPipelineRunning
    /\ IF outcome.kind = "success"
       THEN /\ graph' = ImportedGraph(outcome.data)
            /\ UNCHANGED pipelineError
       ELSE /\ pipelineError' =
                 IF outcome.kind = "failure"
                 THEN (IF outcome.error # Null THEN outcome.error
                       ELSE Some("Pipeline execution failed"))
                 ELSE (IF outcome.error # Null THEN outcome.error
                       ELSE Some("Unknown error occurred"))
            /\ UNCHANGED graph
    /\ isPipelineRunning' = FALSE
    /\ UNCHANGED <<mode, originalImageRaw, layers, originalColorMap,
                   colorMapRequests, viewVars, editVars, uuidCount>>
    /\ Dispatched("settled." \o outcome.kind, NoPointer,
                  IF outcome.kind = "success" THEN Some(outcome.data) ELSE Null)

NoData == [seeds |-> <<>>, edges |-> <<>>]
Success(data) == [kind |-> "success", data |-> data, error |-> Null]
Failure(error) == [kind |-> "failure", data |-> NoData, error |-> error]
Throw(error) == [kind |-> "throw", data |-> NoData, error |-> error]

\* ------------------------------------------------------------ event inputs
Keys == {"Escape", "Delete", "Backspace"}
Modes == {"view", "edit"}
\* left and middle presses, plain or shift-modified, and right presses, at pts
Presses(pts) ==
    {Event(0, sh, FALSE, pt) : sh \in BOOLEAN, pt \in pts} \cup
    {Event(1, FALSE, FALSE, pt) : pt \in pts}
RightPresses(pts) == {Event(2, FALSE, FALSE, pt) : pt \in pts}

\* sequences over S of length at most n
RECURSIVE SeqsUpTo(_, _)
SeqsUpTo(S, n) ==
    IF n = 0 THEN {<<>>}
    ELSE LET shorter == SeqsUpTo(S, n - 1)
         IN  shorter \cup {Append(q, v) : q \in shorter, v \in S}

\* pipeline results: a seed [y, x] and a malformed one; a two-point sequence
\* from that seed and a three-point sequence back to it
SeedValues == {Arr(<<2, 1>>), Arr(<<7>>)}
PathValues == {Arr(<<Arr(<<2, 1>>), Arr(<<4, 3>>)>>),
               Arr(<<Arr(<<4, 3>>), Arr(<<3, 3>>), Arr(<<2, 1>>)>>)}
PipelineData ==
    [seeds : SeqsUpTo(SeedValues, MaxSeeds), edges : SeqsUpTo(PathValues, MaxPaths)]
\* how a run settles: success with data, a failure result without or with
\* an error text, a thrown non-Error value or a thrown Error with a message
Outcomes ==
    {Success(d) : d \in PipelineData} \cup
    {Failure(Null), Failure(Some("pipeline exited")),
     Throw(Null), Throw(Some("pipeline exited"))}

\* ------------------------------------------------------------- next-state
ClickPoint == <<RectLeft + 10, RectTop + 10>>

\* The graph editor from construction: the presses, key presses and menu
\* clicks that reach the graph, the mode buttons and Clear All.
Next ==
    \/ \E key \in Keys : KeyDown(key)
    \/ \E e \in Presses({ClickPoint}) :
          MouseDownCanvas(e) /\ uuidCount' <= MaxUuid
    \/ \E e \in Presses({ClickPoint}), id \in NodeIds :
          MouseDownNode(e, id) /\ uuidCount' <= MaxUuid
    \/ \E e \in Presses({ClickPoint}), id \in RenderedEdgeIds : MouseDownEdge(e, id)
    \/ \E e \in RightPresses({ClickPoint}) : RightClickCanvas(e)
    \/ \E e \in RightPresses({ClickPoint}), id \in NodeIds : RightClickNode(e, id)
    \/ \E e \in RightPresses({ClickPoint}), id \in RenderedEdgeIds :
          RightClickEdge(e, id)
    \/ MouseUp
    \/ MenuDeleteEdge
    \/ MenuDeleteNode
    \/ \E m \in Modes : SetMode(m)
    \/ handleClearGraph

Spec == Init /\ [][Next]_vars

\* The application once its three images are loaded: pipeline runs whose
\* results are imported, interleaved with unmodified left presses on empty
\* canvas and on nodes, the mode buttons and Clear All.
NextImport ==
    \/ handleRunPipeline
    \/ \E o \in Outcomes : PipelineSettled(o)
    \/ \E e \in {Event(0, FALSE, FALSE, ClickPoint)} :
          MouseDownCanvas(e) /\ uuidCount' <= MaxImportUuid
    \/ \E e \in {Event(0, FALSE, FALSE, ClickPoint)}, id \in NodeIds :
          MouseDownNode(e, id) /\ uuidCount' <= MaxImportUuid
    \/ \E m \in Modes : SetMode(m)
    \/ handleClearGraph

SpecImport == InitLoaded /\ [][NextImport]_vars

\* Imported graphs under the editor: pipeline runs whose results are
\* imported, interleaved with selections, context menus, deletions, links
\* between imported nodes, the mode buttons and Clear All.  The results are
\* a seed with a sequence leaving it, the seed alone, and a failure.
EditOutcomes ==
    {Success([seeds |-> <<Arr(<<2, 1>>)>>,
              edges |-> <<Arr(<<Arr(<<2, 1>>), Arr(<<4, 3>>)>>)>>]),
     Success([seeds |-> <<Arr(<<2, 1>>)>>, edges |-> <<>>]),
     Failure(Null)}

NextImportEdit ==
    \/ handleRunPipeline
    \/ \E o \in EditOutcomes : PipelineSettled(o)
    \/ \E key \in Keys : KeyDown(key)
    \/ \E id \in NodeIds :
          MouseDownNode(Event(0, FALSE, FALSE, ClickPoint), id)
          /\ uuidCount' <= MaxImportEditUuid
    \/ \E id \in RenderedEdgeIds :
          MouseDownEdge(Event(0, FALSE, FALSE, ClickPoint), id)
    \/ \E id \in NodeIds :
          RightClickNode(Event(2, FALSE, FALSE, ClickPoint), id)
    \/ \E id \in RenderedEdgeIds :
          RightClickEdge(Event(2, FALSE, FALSE, ClickPoint), id)
    \/ MenuDeleteEdge
    \/ MenuDeleteNode
    \/ \E m \in Modes : SetMode(m)
    \/ handleClearGraph

SpecImportEdit == InitLoaded /\ [][NextImportEdit]_vars

\* The conversion of pipeline results alone: runs that succeed with well
\* formed and malformed data.  The seeds are two pairs and a one-element
\* array; the sequences are a two-point one, a three-point one, one of three
\* points around a malformed point, one with a single well-formed point
\* beside a malformed one, one of a single point, and a value that is not an
\* array.
ConvertSeeds == {Arr(<<2, 1>>), Arr(<<4, 3>>), Arr(<<7>>)}
ConvertPaths ==
    {Arr(<<Arr(<<2, 1>>), Arr(<<4, 3>>)>>),
     Arr(<<Arr(<<4, 3>>), Arr(<<3, 3>>), Arr(<<2, 1>>)>>),
     Arr(<<Arr(<<4, 3>>), NotArr, Arr(<<3, 3>>), Arr(<<2, 1>>)>>),
     Arr(<<Arr(<<2, 1>>), Arr(<<7>>)>>),
     Arr(<<Arr(<<5, 5>>)>>),
     NotArr}
ConvertData ==
    [seeds : SeqsUpTo(ConvertSeeds, MaxConvertSeeds),
     edges : SeqsUpTo(ConvertPaths, MaxConvertPaths)]

NextConvert ==
    \/ handleRunPipeline
    \/ \E d \in ConvertData : PipelineSettled(Success(d))

SpecConvert == InitLoaded /\ [][NextConvert]_vars

\* A chain drawn on an empty canvas: the editor in edit mode with an empty
\* graph and no chain anchor, and nothing but unmodified left presses on
\* empty canvas, at any of three places.
InitChain ==
    /\ NoImages
    /\ mode = "edit"
    /\ graph = [nodes |-> <<>>, edges |-> <<>>]
    /\ isPipelineRunning = FALSE
    /\ pipelineError = Null
    /\ transform = [x |-> Num(0), y |-> Num(0), scale |-> Num(1)]
    /\ isPanning = FALSE
    /\ lastPanPoint = Null
    /\ activeChainStartNodeId = Null
    /\ mousePos = Null
    /\ selectedEdgeId = Null
    /\ selectedNodeId = Null
    /\ contextMenu = Null
    /\ uuidCount = 0
    /\ lastEvent = [name |-> "setMode", button |-> 0, shiftKey |-> FALSE,
                    at |-> Null, target |-> Null, call |-> "none",
                    anchor |-> Null]

ChainPoints == {<<RectLeft + 10, RectTop + 10>>, <<RectLeft + 40, RectTop + 10>>,
                <<RectLeft + 40, RectTop + 30>>}

NextChain ==
    \E pt \in ChainPoints :
        /\ MouseDownCanvas(Event(0, FALSE, FALSE, pt))
        /\ Len(graph'.nodes) <= MaxChain

SpecChain == InitChain /\ [][NextChain]_vars

\* The view: wheel zooms, pans (press, drag, release) and the mode buttons,
\* with the pointer at either of two places.  Placing a node leaves the
\* transform alone (handleMouseDown) and is left to Spec.
ViewPoints == {<<RectLeft + 10, RectTop + 20>>, <<RectLeft + 100, RectTop + 40>>}
\* wheel deltas that double and halve the scale, that bring the factor
\* 1 - deltaY * zoomIntensity to zero and below it, and that overshoot 10
WheelDeltas == {-1000, 500, 1000, 3000, -20000}

\* the coordinates of the view origin are within the bounds
WithinView(t) ==
    \A c \in {t.x, t.y} : Abs(c[1]) <= MaxNumerator /\ c[2] <= MaxDenominator

\* a press on empty canvas that starts a pan: the middle button, any button
\* in view mode, or a press with Shift held
PanPress(e) ==
    /\ e.button = 1 \/ mode = "view" \/ e.shiftKey \/ e.ctrlKey
    /\ MouseDownCanvas(e)

\* the pointer dragged to pt during a pan
Drag(pt) ==
    /\ isPanning
    /\ MouseMove(pt)

NextView ==
    \/ \E pt \in ViewPoints, d \in WheelDeltas :
          Wheel(pt, d) /\ WithinView(transform')
    \/ \E e \in Presses(ViewPoints) : PanPress(e)
    \/ \E pt \in ViewPoints : Drag(pt) /\ WithinView(transform')
    \/ MouseUp
    \/ \E m \in Modes : SetMode(m)

SpecView == Init /\ [][NextView]_vars

\* ------------------------------------------------ editing under a moving view
\* Nodes and edges are placed, selected and deleted while the view is zoomed
\* and panned.
PanZoomDeltas == {500, -1000}

\* the view origin has whole coordinates within the bound
WithinPanZoom(t) ==
    \A c \in {t.x, t.y} : Abs(c[1]) <= MaxPanZoomOffset /\ c[2] = 1

NextPanZoom ==
    \/ \E pt \in ViewPoints, d \in PanZoomDeltas :
          Wheel(pt, d) /\ WithinPanZoom(transform')
    \/ \E b \in {0, 1} :
          MouseDownCanvas(Event(b, FALSE, FALSE, ClickPoint))
          /\ uuidCount' <= MaxPanZoomUuid
    \/ \E id \in NodeIds :
          MouseDownNode(Event(0, FALSE, FALSE, ClickPoint), id)
          /\ uuidCount' <= MaxPanZoomUuid
    \/ \E id \in RenderedEdgeIds :
          MouseDownEdge(Event(0, FALSE, FALSE, ClickPoint), id)
    \/ \E pt \in ViewPoints : Drag(pt) /\ WithinPanZoom(transform')
    \/ MouseUp
    \/ KeyDown("Delete")
    \/ \E m \in Modes : SetMode(m)

SpecPanZoom == Init /\ [][NextPanZoom]_vars

\* --------------------------------------------------------------- panning
\* A pan from press to release: the pointer moves between three places,
\* panning or not, the wheel zooms in and out, and the mode buttons.
PanPoints == {<<RectLeft + 2, RectTop + 3>>, <<RectLeft + 3, RectTop + 1>>,
              <<RectLeft + 5, RectTop + 5>>}

\* the view origin has whole coordinates within the bound, and the view is
\* magnified by no more than the bound
WithinPan(t) ==
    /\ \A c \in {t.x, t.y} : Abs(c[1]) <= MaxPanOffset /\ c[2] = 1
    /\ RLeq(Num(1), t.scale) /\ RLeq(t.scale, Num(MaxPanScale))

NextPan ==
    \/ \E e \in Presses(PanPoints) : PanPress(e)
    \/ \E pt \in PanPoints : MouseMove(pt) /\ WithinPan(transform')
    \/ MouseUp
    \/ \E d \in PanZoomDeltas :
          Wheel(<<RectLeft + 2, RectTop + 3>>, d) /\ WithinPan(transform')
    \/ \E m \in Modes : SetMode(m)

SpecPan == Init /\ [][NextPan]_vars

\* ------------------------------------------------------------ ghost line
\* Nodes and edges are placed, selected and deleted while the pointer moves
\* between two places, panning or not.
GhostPoints == {ClickPoint, <<RectLeft + 12, RectTop + 13>>}

\* the view origin has coordinates within the bound
WithinGhost(t) ==
    \A c \in {t.x, t.y} : Abs(c[1]) <= MaxGhostOffset /\ c[2] = 1

NextGhost ==
    \/ \E e \in Presses({ClickPoint}) :
          MouseDownCanvas(e) /\ uuidCount' <= MaxGhostUuid
    \/ \E id \in NodeIds :
          MouseDownNode(Event(0, FALSE, FALSE, ClickPoint), id)
          /\ uuidCount' <= MaxGhostUuid
    \/ \E id \in RenderedEdgeIds :
          MouseDownEdge(Event(0, FALSE, FALSE, ClickPoint), id)
    \/ \E pt \in GhostPoints : MouseMove(pt) /\ WithinGhost(transform')
    \/ MouseUp
    \/ \E key \in Keys : KeyDown(key)
    \/ \E m \in Modes : SetMode(m)

SpecGhost == Init /\ [][NextGhost]_vars

\* ------------------------------------------------------- pipeline runs
\* From construction: the three images are uploaded and replaced in any
\* order, the colour-mapped original arrives or fails to, and the pipeline
\* is run as often as its button allows and settles in every way it can.
LayerTypes == {"original", "mask", "annotation"}
\* the images the user picks for a layer
Images(type) == {type \o ".png", type \o "-2.png"}
RunOutcomes ==
    EditOutcomes \cup
    {Failure(Some("pipeline exited")), Throw(Null), Throw(Some("pipeline exited"))}

NextRun ==
    \/ \E type \in LayerTypes : \E dataURL \in Images(type) :
          handleUpload(type, dataURL)
          /\ Len(colorMapRequests') <= MaxRunRequests
    \/ \E i \in DOMAIN colorMapRequests, ok \in BOOLEAN : ColorMapSettled(i, ok)
    \/ handleRunPipeline
    \/ \E o \in RunOutcomes : PipelineSettled(o)

SpecRun == Init /\ [][NextRun]_vars

\* the external call of a run in flight settles in the end
SpecRunFair ==
    SpecRun /\ WF_vars(\E o \in RunOutcomes : PipelineSettled(o))

\* ------------------------------------------------------- colour mapping
\* From construction: the original image is uploaded and replaced, the
\* colour map is changed, and the applyColorMap calls in flight complete
\* with success in any order.
ColorMaps == {"red", "green", "blue", "green-viridis"}

NextColorMap ==
    \/ \E dataURL \in Images("original") :
          handleUpload("original", dataURL)
          /\ Len(colorMapRequests') <= MaxColorMapRequests
    \/ \E colorMap \in ColorMaps :
          updateColorMap(colorMap)
          /\ Len(colorMapRequests') <= MaxColorMapRequests
    \/ \E i \in DOMAIN colorMapRequests : ColorMapSettled(i, TRUE)

SpecColorMap == Init /\ [][NextColorMap]_vars

\* ------------------------------------------------------- defective edges
\* Imported graphs under the editor with nodes placed by hand: pipeline
\* runs whose results are imported, interleaved with presses on empty
\* canvas, on nodes and on edges, context menus, deletions and the mode
\* buttons.
NextDefective ==
    \/ handleRunPipeline
    \/ \E o \in EditOutcomes : PipelineSettled(o)
    \/ MouseDownCanvas(Event(0, FALSE, FALSE, ClickPoint))
       /\ uuidCount' <= MaxDefectiveUuid
    \/ \E id \in NodeIds :
          MouseDownNode(Event(0, FALSE, FALSE, ClickPoint), id)
          /\ uuidCount' <= MaxDefectiveUuid
    \/ \E id \in RenderedEdgeIds :
          MouseDownEdge(Event(0, FALSE, FALSE, ClickPoint), id)
    \/ \E e \in RightPresses({ClickPoint}), id \in RenderedEdgeIds :
          RightClickEdge(e, id)
    \/ MenuDeleteEdge
    \/ \E key \in Keys : KeyDown(key)
    \/ \E m \in Modes : SetMode(m)

SpecDefective == InitLoaded /\ [][NextDefective]_vars

\* ================================================================== claims
Nodes == Range(graph.nodes)
Edges == Range(graph.edges)
Incident(e, id) == e.sourceId = id \/ e.targetId = id
SamePair(e, f) ==
    \/ e.sourceId = f.sourceId /\ e.targetId = f.targetId
    \/ e.sourceId = f.targetId /\ e.targetId = f.sourceId
\* a state-changing step made by the event called name
StepOf(name) == state' # state /\ lastEvent'.name = name

\* C1: every edge's sourceId and targetId are ids of nodes in the node set,
\* in every state reachable by editing, clearing and importing.
C1_EdgeEndpointsExist ==
    \A e \in Edges : e.sourceId \in NodeIds /\ e.targetId \in NodeIds

C3_NoDuplicateEdges ==
    /\ [](\A i, j \in DOMAIN graph.edges :
            i # j => ~SamePair(graph.edges[i], graph.edges[j]))
    /\ [][(StepOf("mousedown.node") /\ lastEvent'.button = 0 /\ mode = "edit"
           /\ activeChainStartNodeId # Null
           /\ activeChainStartNodeId # lastEvent'.target)
          => LET a == Val(activeChainStartNodeId)
                 b == Val(lastEvent'.target)
             IN  /\ graph'.nodes = graph.nodes
                 /\ IF \E e \in Edges : {e.sourceId, e.targetId} = {a, b}
                    THEN graph' = graph
                    ELSE /\ Len(graph'.edges) = Len(graph.edges) + 1
                         /\ SubSeq(graph'.edges, 1, Len(graph.edges)) = graph.edges
                         /\ graph'.edges[Len(graph'.edges)].sourceId = a
                         /\ graph'.edges[Len(graph'.edges)].targetId = b]_vars

\* C3 witness: a press on a node already joined to the anchor, in the
\* direction opposite to the existing edge, has added nothing.
C3_Witness ==
    /\ lastEvent.name = "mousedown.node"
    /\ lastEvent.anchor # Null
    /\ lastEvent.anchor # lastEvent.target
    /\ \E e \in Edges : e.sourceId = Val(lastEvent.target)
                        /\ e.targetId = Val(lastEvent.anchor)
    /\ ~\E e \in Edges : e.sourceId = Val(lastEvent.anchor)
                         /\ e.targetId = Val(lastEvent.target)

\* C4: node ids are pairwise distinct and edge ids are pairwise distinct,
\* whatever mix of clicks and imports produced the graph.
C4_UniqueIds ==
    /\ \A i, j \in DOMAIN graph.nodes : i # j => graph.nodes[i].id # graph.nodes[j].id
    /\ \A i, j \in DOMAIN graph.edges : i # j => graph.edges[i].id # graph.edges[j].id

\* C4 witness: an imported graph extended by a click-created node and edge.
C4_Witness ==
    /\ \E n \in Nodes : n.id = NodeIdOf(1, 2)
    /\ \E n \in Nodes : n.id = Uuid(1)
    /\ \E e \in Edges : e.id = EdgeIdOf(0)
    /\ \E e \in Edges : e.id = Uuid(2)

\* C5: from an empty graph in edit mode with no anchor, k >= 1 consecutive
\* unmodified left presses on empty canvas give exactly k nodes and k - 1
\* edges, the i-th edge running from the i-th node to the (i+1)-th, and after
\* each press the anchor is the node just created (each press appends one node).
C5_ChainCreation ==
    /\ [](LET k == Len(graph.nodes)
          IN  k >= 1 =>
                /\ Len(graph.edges) = k - 1
                /\ \A i \in 1..(k - 1) :
                      /\ graph.edges[i].sourceId = graph.nodes[i].id
                      /\ graph.edges[i].targetId = graph.nodes[i + 1].id
                /\ activeChainStartNodeId = Some(graph.nodes[k].id))
    /\ [][/\ Len(graph'.nodes) = Len(graph.nodes) + 1
          /\ SubSeq(graph'.nodes, 1, Len(graph.nodes)) = graph.nodes]_vars

\* C5 witness: three presses have made three nodes and two edges.
C5_Witness ==
    /\ Len(graph.nodes) = 3
    /\ Len(graph.edges) = 2
    /\ lastEvent.name = "mousedown.canvas"

\* C6: in edit mode a left press on an existing node c adds no node and makes
\* c the anchor; when the anchor was s # c and no edge joined s and c it
\* appends exactly one edge s -> c, and otherwise (an edge exists, the anchor
\* is c, or there is no anchor) the edges are unchanged.
C6_MergeIntoExistingNode ==
    [][(StepOf("mousedown.node") /\ lastEvent'.button = 0 /\ mode = "edit")
       => LET c == Val(lastEvent'.target)
              s == activeChainStartNodeId
              joined == \E e \in Edges : Incident(e, Val(s)) /\ Incident(e, c)
          IN  /\ graph'.nodes = graph.nodes
              /\ activeChainStartNodeId' = Some(c)
              /\ IF s # Null /\ s # Some(c) /\ ~joined
                 THEN \E new \in Range(graph'.edges) :
                        /\ graph'.edges = Append(graph.edges, new)
                        /\ new.sourceId = Val(s)
                        /\ new.targetId = c
                 ELSE graph'.edges = graph.edges]_vars

\* C6 witness: a press on an existing node has appended the edge from the
\* anchor to it.
C6_Witness ==
    /\ lastEvent.name = "mousedown.node"
    /\ lastEvent.button = 0
    /\ lastEvent.anchor # Null
    /\ graph.edges # <<>>
    /\ graph.edges[Len(graph.edges)].sourceId = Val(lastEvent.anchor)
    /\ Some(graph.edges[Len(graph.edges)].targetId) = lastEvent.target
    /\ activeChainStartNodeId = lastEvent.target

\* C7: an Escape press leaves the graph unchanged and clears the anchor; the
\* unmodified left press on empty canvas that follows an Escape pressed with
\* anchor A, in edit mode, appends one node B, adds no edge (so none between
\* A and B) and makes B the anchor.
C7_EscapeAbandons ==
    /\ [][StepOf("keydown.Escape")
          => graph' = graph /\ activeChainStartNodeId' = Null]_vars
    /\ [][(/\ lastEvent.name = "keydown.Escape"
           /\ lastEvent.anchor # Null
           /\ StepOf("mousedown.canvas")
           /\ lastEvent'.button = 0 /\ ~lastEvent'.shiftKey
           /\ mode = "edit")
          => /\ Len(graph'.nodes) = Len(graph.nodes) + 1
             /\ SubSeq(graph'.nodes, 1, Len(graph.nodes)) = graph.nodes
             /\ graph'.edges = graph.edges
             /\ LET B == graph'.nodes[Len(graph'.nodes)].id
                    A == Val(lastEvent.anchor)
                IN  /\ activeChainStartNodeId' = Some(B)
                    /\ ~\E e \in Range(graph'.edges) :
                          Incident(e, A) /\ Incident(e, B)]_vars

\* C7 witness: Escape has just been pressed with node A as the anchor, in
\* edit mode, A is still in the graph, and a press on empty canvas can follow.
C7_Witness ==
    /\ lastEvent.name = "keydown.Escape"
    /\ lastEvent.anchor # Null
    /\ Val(lastEvent.anchor) \in NodeIds
    /\ activeChainStartNodeId = Null
    /\ mode = "edit"
    /\ uuidCount < MaxUuid

\* C8: while the mode is 'view' no interaction with the editor (presses,
\* releases, right-clicks, key presses, context-menu buttons) changes the
\* node set or the edge set.
C8_ViewModeNoMutation ==
    [][(mode = "view" /\ state' # state
        /\ lastEvent'.name \notin {"clear", "setMode"})
       => graph' = graph]_vars

\* C9: a wheel event at pointer position p, clamped or not, leaves
\* toImageCoords(p) unchanged: computed under the new transform it equals
\* what it was under the old one (in exact arithmetic).
C9_ZoomFixpoint ==
    [][(lastEvent'.name = "wheel" /\ transform' # transform)
       => \A p \in ViewPoints :
            lastEvent'.at = Some(p)
            => ImageCoords(transform', p[1], p[2]) = toImageCoords(p[1], p[2])]_vars

\* C9 witness: a wheel event away from the view origin has changed the
\* scale to the upper clamp.
C9_Witness ==
    /\ lastEvent.name = "wheel"
    /\ transform.scale = Num(10)
    /\ transform.x # Num(0)
    /\ transform.y # Num(0)

\* C10: the scale stays within [0.1, 10] through wheel, pan and edit events.
C10_ScaleBound ==
    /\ RLeq(Norm(1, 10), transform.scale)
    /\ RLeq(transform.scale, Num(10))

\* C10 witness: a wheel event has brought the scale to the lower clamp.
C10_Witness ==
    /\ lastEvent.name = "wheel"
    /\ transform.scale = Norm(1, 10)

\* image points the round trip is tried on
ImagePoints ==
    {[x |-> Num(0), y |-> Num(0)], [x |-> Num(7), y |-> Num(-3)],
     [x |-> Norm(5, 2), y |-> Norm(1, 3)]}

\* C11: under every reachable transform, toImageCoords of the place where
\* the canvas layer shows an image point q is q, and the canvas layer shows
\* toImageCoords(s) at the screen point s (in exact arithmetic).
C11_RoundTrip ==
    /\ \A q \in ImagePoints :
         LET s == CanvasLayerPoint(transform, q)
         IN  ImageOf(transform, s.x, s.y) = q
    /\ \A p \in ViewPoints :
         CanvasLayerPoint(transform, toImageCoords(p[1], p[2]))
             = [x |-> Num(p[1] - RectLeft), y |-> Num(p[2] - RectTop)]

\* C11 witness: the view has been zoomed out to a fractional scale and then
\* dragged, so both the scale and the origin differ from the initial ones.
C11_Witness ==
    /\ lastEvent.name = "mousemove"
    /\ transform.scale \notin {Num(k) : k \in 1..MaxScale}
    /\ transform.x # Num(0)
    /\ transform.y # Num(0)

\* C12: a wheel event and a pan movement leave the nodes with their
\* coordinates, the edges, the chain anchor and the selection as they were;
\* and through every step a node that stays in the graph keeps its stored
\* coordinates.
C12_PanZoomOnlyView ==
    /\ [][(StepOf("wheel") \/ (StepOf("mousemove") /\ isPanning))
          => /\ graph' = graph
             /\ activeChainStartNodeId' = activeChainStartNodeId
             /\ selectedEdgeId' = selectedEdgeId
             /\ selectedNodeId' = selectedNodeId]_vars
    /\ [][\A n \in Nodes : \A m \in Nodes' : m.id = n.id => m = n]_vars

\* C12 witness: the view has been zoomed and is being dragged while the
\* graph holds two linked nodes, a chain anchor and a selected edge.
C12_Witness ==
    /\ lastEvent.name = "mousemove"
    /\ transform.scale # Num(1)
    /\ Len(graph.nodes) = 2
    /\ Len(graph.edges) = 1
    /\ activeChainStartNodeId # Null
    /\ selectedEdgeId # Null

\* C13: in either mode, a press of Escape leaves no chain anchor, no
\* selected node, no selected edge and no context menu, and changes neither
\* the graph nor the view transform.
C13_EscapeCancels ==
    [][StepOf("keydown.Escape")
       => /\ activeChainStartNodeId' = Null
          /\ selectedNodeId' = Null
          /\ selectedEdgeId' = Null
          /\ contextMenu' = Null
          /\ graph' = graph
          /\ transform' = transform]_vars

\* C13 witness: Escape pressed in view mode while a chain anchor was still
\* set has left a graph of two linked nodes with nothing selected.
C13_Witness ==
    /\ lastEvent.name = "keydown.Escape"
    /\ lastEvent.anchor # Null
    /\ mode = "view"
    /\ Len(graph.edges) = 1
    /\ selectedNodeId = Null /\ selectedEdgeId = Null /\ contextMenu = Null

\* a right-button press, wherever it landed
RightClicks == {"rightclick.canvas", "rightclick.node", "rightclick.edge"}

C15_RemoveNode ==
    [][(state' # state /\ lastEvent'.call = "deleteNode")
       => LET n == Val(lastEvent'.target)
          IN  /\ ~HasNode(graph'.nodes, n)
              /\ \A e \in Edges' : ~Incident(e, n)
              /\ Nodes' = {m \in Nodes : m.id # n}
              /\ Edges' = {e \in Edges : ~Incident(e, n)}
              /\ ~HasNode(graph.nodes, n) => graph' = graph]_vars

\* C16: deleteEdge called with an id that no edge has, such as a selected
\* edge's id that outlived its edge, leaves the node set and the edge set as
\* they were.
C16_RemoveAbsentEdge ==
    [][(state' # state /\ lastEvent'.call = "deleteEdge"
        /\ \A e \in Edges : e.id # Val(lastEvent'.target))
       => Nodes' = Nodes /\ Edges' = Edges]_vars

\* C17: a node deletion, by key or by the context menu, of the node that is
\* the chain anchor leaves no chain anchor; a deletion of any other node
\* leaves the anchor as it was.
C17_DeleteAnchorResetsChain ==
    [][(state' # state /\ lastEvent'.call = "deleteNode")
       => activeChainStartNodeId' =
            IF activeChainStartNodeId = lastEvent'.target THEN Null
            ELSE activeChainStartNodeId]_vars

\* C17 witness: the chain anchor has been deleted and its neighbour is
\* still in the graph.
C17_Witness ==
    /\ lastEvent.call = "deleteNode"
    /\ lastEvent.anchor # Null
    /\ lastEvent.anchor = lastEvent.target
    /\ activeChainStartNodeId = Null
    /\ Len(graph.nodes) = 1

\* C18: while the chain anchor names a node that is no longer in the node
\* set, a press in edit mode on empty canvas or on a node adds no edge that
\* has the anchor as an endpoint.
C18_StaleAnchorAddsNoEdge ==
    [][(state' # state
        /\ lastEvent'.name \in {"mousedown.canvas", "mousedown.node"}
        /\ mode = "edit"
        /\ activeChainStartNodeId # Null
        /\ ~HasNode(graph.nodes, Val(activeChainStartNodeId)))
       => \A e \in Edges' \ Edges :
            ~Incident(e, Val(activeChainStartNodeId))]_vars

\* the well-formed points of a point-sequence, in order
ValidPoints(edgeData) ==
    IF edgeData.isArray
    THEN SelectSeq(edgeData.items, LAMBDA pt : pt.isArray /\ Len(pt.items) >= 2)
    ELSE <<>>
\* the nodes of g stored at image point (x, y)
NodesAt(g, x, y) ==
    {k \in DOMAIN g.nodes : g.nodes[k].x = Num(x) /\ g.nodes[k].y = Num(y)}
\* the edge ed of g runs from a node at point [y, x] = from to one at to
RunsBetween(g, ed, from, to) ==
    \E a \in NodesAt(g, from.items[2], from.items[1]),
       b \in NodesAt(g, to.items[2], to.items[1]) :
        g.nodes[a].id = ed.sourceId /\ g.nodes[b].id = ed.targetId

\* C19: the graph an import installs for the result data d has exactly one
\* node at each well-formed seed [y, x], stored as (x, y); one edge for each
\* point-sequence with at least two well-formed points, and no other edge,
\* running from the node at its first well-formed point to the node at its
\* last; no node other than those at seeds and at edge endpoints; pairwise
\* distinct node ids; and every edge endpoint in the node set.
C19_ImportWellFormed ==
    [][StepOf("settled.success")
       => LET d == Val(lastEvent'.target)
              g == graph'
              good == {i \in DOMAIN d.edges : Len(ValidPoints(d.edges[i])) >= 2}
          IN  /\ \A i \in DOMAIN d.seeds :
                   IsPair(d.seeds[i])
                   => Cardinality(NodesAt(g, d.seeds[i].items[2],
                                          d.seeds[i].items[1])) = 1
              /\ Len(g.edges) = Cardinality(good)
              /\ \A i \in good :
                   LET pts == ValidPoints(d.edges[i])
                   IN  \E k \in DOMAIN g.edges :
                         /\ g.edges[k].id = EdgeIdOf(i - 1)
                         /\ RunsBetween(g, g.edges[k], pts[1], pts[Len(pts)])
              /\ \A k \in DOMAIN g.nodes :
                   \/ \E i \in DOMAIN d.seeds :
                        /\ IsPair(d.seeds[i])
                        /\ k \in NodesAt(g, d.seeds[i].items[2], d.seeds[i].items[1])
                   \/ \E ed \in Range(g.edges) : Incident(ed, g.nodes[k].id)
              /\ \A j, k \in DOMAIN g.nodes :
                   j # k => g.nodes[j].id # g.nodes[k].id
              /\ \A ed \in Range(g.edges) :
                   HasNode(g.nodes, ed.sourceId) /\ HasNode(g.nodes, ed.targetId)]_vars

\* C19 witness: an import of a seed, a malformed seed, a sequence around a
\* malformed point that ends at the seed and a two-point sequence back has
\* installed two nodes and two edges, one of them with a path.
C19_Witness ==
    /\ lastEvent.name = "settled.success"
    /\ Val(lastEvent.target) =
         [seeds |-> <<Arr(<<2, 1>>), Arr(<<7>>)>>,
          edges |-> <<Arr(<<Arr(<<4, 3>>), NotArr, Arr(<<3, 3>>), Arr(<<2, 1>>)>>),
                      Arr(<<Arr(<<2, 1>>), Arr(<<4, 3>>)>>)>>]
    /\ Len(graph.nodes) = 2
    /\ Len(graph.edges) = 2
    /\ graph.edges[1].path # Null

\* the ids of the nodes and edges of g
IdsOf(g) == {n.id : n \in Range(g.nodes)} \cup {ed.id : ed \in Range(g.edges)}

\* C20: a pipeline run that returns a failure or throws leaves the graph as
\* it was and sets an error message; a run that succeeds installs exactly
\* the conversion of its result, so that no node or edge the user had
\* placed, before or during the run, is left in the graph.
C20_ImportAllOrNothing ==
    /\ [][(StepOf("settled.failure") \/ StepOf("settled.throw"))
          => graph' = graph /\ pipelineError' # Null]_vars
    /\ [][StepOf("settled.success")
          => /\ graph' = ImportedGraph(Val(lastEvent'.target))
             /\ \A k \in 1..uuidCount : Uuid(k) \notin IdsOf(graph')]_vars

\* C20 witness: a run has succeeded after the user had placed a node, which
\* is still the chain anchor, and the graph holds the two imported nodes and
\* their edge.
C20_Witness ==
    /\ lastEvent.name = "settled.success"
    /\ lastEvent.anchor = Some(Uuid(1))
    /\ uuidCount = 1
    /\ Len(graph.nodes) = 2
    /\ Len(graph.edges) = 1

\* a point-sequence that is not an array, has fewer than two points or holds
\* a point without its coordinate pair
Defective(edgeData) ==
    \/ ~edgeData.isArray
    \/ Len(edgeData.items) < 2
    \/ \E k \in DOMAIN edgeData.items : ~IsPair(edgeData.items[k])

\* C21 as claimed: a point-sequence with fewer than two points or with a
\* point missing its coordinate pair yields no edge.
C21_DefectiveSequenceDropped ==
    [][StepOf("settled.success")
       => LET d == Val(lastEvent'.target)
          IN  \A i \in DOMAIN d.edges :
                Defective(d.edges[i])
                => \A ed \in Edges' : ed.id # EdgeIdOf(i - 1)]_vars

\* C21 amended: the import sets no error; a seed that is not a pair yields
\* no node; a malformed point is dropped from its sequence, and a sequence
\* left with fewer than two well-formed points yields no edge and no node;
\* every well-formed seed has its node and every sequence with at least two
\* well-formed points has its edge.
C21_BestEffortImport ==
    [][StepOf("settled.success")
       => LET d == Val(lastEvent'.target)
              g == graph'
              good == {i \in DOMAIN d.edges : Len(ValidPoints(d.edges[i])) >= 2}
              ends == {ValidPoints(d.edges[i])[1] : i \in good} \cup
                      {ValidPoints(d.edges[i])[Len(ValidPoints(d.edges[i]))] :
                         i \in good}
              seeds == {sd \in Range(d.seeds) : IsPair(sd)}
          IN  /\ pipelineError' = Null
              /\ {ed.id : ed \in Range(g.edges)} = {EdgeIdOf(i - 1) : i \in good}
              /\ {<<n.x, n.y>> : n \in Range(g.nodes)}
                   = {<<Num(pt.items[2]), Num(pt.items[1])>> : pt \in seeds \cup ends}]_vars

\* C21 witness: an import of a malformed seed, a seed, a one-point sequence
\* and a sequence around a malformed point has installed the seed's node,
\* the node at the sequence's end and the edge of the second sequence.
C21_Witness ==
    /\ lastEvent.name = "settled.success"
    /\ Val(lastEvent.target) =
         [seeds |-> <<Arr(<<7>>), Arr(<<4, 3>>)>>,
          edges |-> <<Arr(<<Arr(<<5, 5>>)>>),
                      Arr(<<Arr(<<4, 3>>), NotArr, Arr(<<3, 3>>), Arr(<<2, 1>>)>>)>>]
    /\ Len(graph.nodes) = 2
    /\ Len(graph.edges) = 1
    /\ graph.edges[1].id = EdgeIdOf(1)

\* C22: in no reachable state are a node and an edge both selected.
C22_SelectionExclusive ==
    ~(selectedNodeId # Null /\ selectedEdgeId # Null)

\* C23: in edit mode a left click on an edge selects that edge, leaves no
\* node selected, creates no node or edge and leaves the chain anchor as it
\* was; in view mode it changes no selection.
C23_EdgeClickSelectsExclusively ==
    [][(StepOf("mousedown.edge") /\ lastEvent'.button = 0)
       => IF mode = "edit"
          THEN /\ selectedEdgeId' = lastEvent'.target
               /\ selectedNodeId' = Null
               /\ graph' = graph
               /\ activeChainStartNodeId' = activeChainStartNodeId
          ELSE UNCHANGED <<selectedEdgeId, selectedNodeId>>]_vars

\* C24: Delete or Backspace with a node selected removes that node and its
\* incident edges and nothing else, clears the node selection and the
\* context menu and leaves the edge selection alone, an edge being selected
\* too or not; with only an edge selected it removes that edge and clears
\* the edge selection and the context menu; with nothing selected it
\* changes nothing.
C24_DeleteKeyDispatch ==
    [][(StepOf("keydown.Delete") \/ StepOf("keydown.Backspace"))
       => IF selectedNodeId # Null
          THEN LET n == Val(selectedNodeId)
               IN  /\ Nodes' = {m \in Nodes : m.id # n}
                   /\ Edges' = {e \in Edges : ~Incident(e, n)}
                   /\ selectedNodeId' = Null
                   /\ contextMenu' = Null
                   /\ selectedEdgeId' = selectedEdgeId
          ELSE /\ selectedEdgeId # Null
               /\ Edges' = {e \in Edges : e.id # Val(selectedEdgeId)}
               /\ Nodes' \subseteq Nodes
               /\ selectedEdgeId' = Null
               /\ contextMenu' = Null
               /\ selectedNodeId' = Null]_vars

\* C24 witness: Delete pressed with a node and an edge both selected has
\* removed the node and left the edge, still selected, in the graph.
C24_Witness ==
    /\ lastEvent.name = "keydown.Delete"
    /\ lastEvent.call = "deleteNode"
    /\ selectedNodeId = Null
    /\ selectedEdgeId # Null
    /\ \E e \in Edges : Some(e.id) = selectedEdgeId

\* C25: a right-click on a node or an edge changes the selection or the
\* context menu only in edit mode; there it selects that node or edge and
\* opens the context menu at the pointer's client position, naming that
\* node or edge and nothing else.
C25_RightClickOpensMenu ==
    [][(state' # state /\ lastEvent'.name \in {"rightclick.node", "rightclick.edge"})
       => LET at == Val(lastEvent'.at)
              onNode == lastEvent'.name = "rightclick.node"
          IN  /\ mode = "edit"
              /\ onNode => selectedNodeId' = lastEvent'.target
              /\ ~onNode => selectedEdgeId' = lastEvent'.target
              /\ contextMenu' =
                   Some([x |-> at[1], y |-> at[2],
                         edgeId |-> IF onNode THEN Null ELSE lastEvent'.target,
                         nodeId |-> IF onNode THEN lastEvent'.target ELSE Null])]_vars

\* C25 witness: a right-click on an edge has selected it and opened its
\* menu at the pointer.
C25_Witness ==
    /\ lastEvent.name = "rightclick.edge"
    /\ selectedEdgeId = lastEvent.target
    /\ contextMenu # Null
    /\ Val(contextMenu).edgeId = lastEvent.target
    /\ Val(contextMenu).x = ClickPoint[1]
    /\ Val(contextMenu).y = ClickPoint[2]

\* C26: an unmodified left click on empty canvas in edit mode adds one node
\* and leaves no node selected, no edge selected and no context menu open.
C26_CanvasClickResetsSelection ==
    [][(StepOf("mousedown.canvas") /\ lastEvent'.button = 0
        /\ ~lastEvent'.shiftKey /\ mode = "edit")
       => /\ Len(graph'.nodes) = Len(graph.nodes) + 1
          /\ selectedNodeId' = Null
          /\ selectedEdgeId' = Null
          /\ contextMenu' = Null]_vars

\* C26 witness: a click on empty canvas has started a new chain beside two
\* linked nodes, with nothing selected.
C26_Witness ==
    /\ lastEvent.name = "mousedown.canvas"
    /\ lastEvent.button = 0 /\ ~lastEvent.shiftKey
    /\ lastEvent.anchor = Null
    /\ mode = "edit"
    /\ Len(graph.nodes) = 3
    /\ Len(graph.edges) = 1
    /\ selectedNodeId = Null /\ selectedEdgeId = Null /\ contextMenu = Null

\* C27: a left click on a node in edit mode leaves the nodes as they were
\* and leaves no node and no edge selected.
C27_NodeClickCreatesNoNode ==
    [][(StepOf("mousedown.node") /\ lastEvent'.button = 0 /\ mode = "edit")
       => /\ graph'.nodes = graph.nodes
          /\ selectedNodeId' = Null
          /\ selectedEdgeId' = Null]_vars

\* C27 witness: a left click on a node whose context menu was open has
\* made it the chain anchor, and the graph still has its two nodes.
C27_Witness ==
    /\ lastEvent.name = "mousedown.node"
    /\ lastEvent.button = 0
    /\ mode = "edit"
    /\ activeChainStartNodeId = lastEvent.target
    /\ contextMenu # Null
    /\ Val(contextMenu).nodeId = lastEvent.target
    /\ selectedNodeId = Null /\ selectedEdgeId = Null
    /\ Len(graph.nodes) = 2

\* C28: no edge of a graph built in the editor runs from a node to itself,
\* and a left click in edit mode on the node that is the chain anchor
\* leaves the graph and the anchor as they were.
C28_NoSelfLoops ==
    /\ [](\A e \in Edges : e.sourceId # e.targetId)
    /\ [][(StepOf("mousedown.node") /\ lastEvent'.button = 0 /\ mode = "edit"
           /\ activeChainStartNodeId = lastEvent'.target)
          => /\ graph' = graph
             /\ activeChainStartNodeId' = activeChainStartNodeId]_vars

\* C28 witness: a left click on the chain anchor, made while an edge was
\* selected, has cleared the selection and left the anchor and the single
\* edge.
C28_Witness ==
    /\ lastEvent.name = "mousedown.node"
    /\ lastEvent.button = 0
    /\ mode = "edit"
    /\ lastEvent.anchor # Null
    /\ lastEvent.anchor = lastEvent.target
    /\ activeChainStartNodeId = lastEvent.target
    /\ Len(graph.edges) = 1

\* C29: a press that changes anything starts a pan when it is a press of
\* the middle button, a press of the left button in view mode or a press of
\* the left button with Shift held, on empty canvas, on a node or on an
\* edge alike.
C29_PanTriggers ==
    [][(state' # state
        /\ lastEvent'.name \in {"mousedown.canvas", "mousedown.node", "mousedown.edge"}
        /\ \/ lastEvent'.button = 1
           \/ lastEvent'.button = 0 /\ (mode = "view" \/ lastEvent'.shiftKey))
       => /\ isPanning'
          /\ lastPanPoint' = Some([x |-> Val(lastEvent'.at)[1],
                                   y |-> Val(lastEvent'.at)[2]])]_vars

\* a press of a button on empty canvas, on a node or on an edge
PointerDowns == {"mousedown.canvas", "mousedown.node", "mousedown.edge"}

\* C30: no press both starts a pan and changes the graph or the chain
\* anchor, and no pointer movement changes the graph or the chain anchor,
\* whatever the mode has become since the press.
C30_PanOrEdit ==
    [][/\ (state' # state /\ lastEvent'.name \in PointerDowns)
          => ~(/\ <<isPanning, lastPanPoint>>' # <<isPanning, lastPanPoint>>
               /\ <<graph, activeChainStartNodeId>>'
                    # <<graph, activeChainStartNodeId>>)
       /\ StepOf("mousemove")
          => /\ graph' = graph
             /\ activeChainStartNodeId' = activeChainStartNodeId]_vars

\* C30 witness: the view is being dragged in edit mode, beside two linked
\* nodes and a chain anchor.
C30_Witness ==
    /\ lastEvent.name = "mousemove"
    /\ mode = "edit"
    /\ isPanning
    /\ transform.x # Num(0) \/ transform.y # Num(0)
    /\ Len(graph.edges) = 1
    /\ activeChainStartNodeId # Null


\* C31: a pan accumulates the raw movement of the pointer and stops on
\* release.  A press that starts a pan records its point and leaves the
\* transform alone; every movement during the pan records its point as the
\* last sample, keeps the pan going, leaves the scale alone and moves the
\* origin by the movement since the last sample, so that origin minus last
\* sample stays what it was at the press (the origin is the origin at the
\* press plus pn - p0); a release (or the pointer leaving) ends the pan, and
\* a movement outside a pan leaves the transform alone.
C31_PanAccumulates ==
    /\ [](isPanning <=> lastPanPoint # Null)
    /\ [][/\ (StepOf("mousedown.canvas") /\ isPanning')
             => /\ transform' = transform
                /\ lastPanPoint' = Some([x |-> Val(lastEvent'.at)[1],
                                         y |-> Val(lastEvent'.at)[2]])
          /\ (StepOf("mousemove") /\ isPanning)
             => /\ isPanning'
                /\ lastPanPoint' = Some([x |-> Val(lastEvent'.at)[1],
                                         y |-> Val(lastEvent'.at)[2]])
                /\ transform'.scale = transform.scale
                /\ RSub(transform'.x, Num(Val(lastPanPoint').x))
                     = RSub(transform.x, Num(Val(lastPanPoint).x))
                /\ RSub(transform'.y, Num(Val(lastPanPoint').y))
                     = RSub(transform.y, Num(Val(lastPanPoint).y))
          /\ StepOf("mouseup") => ~isPanning' /\ transform' = transform
          /\ (StepOf("mousemove") /\ ~isPanning)
             => ~isPanning' /\ transform' = transform]_vars

\* C31 witness: a view zoomed about (2, 3) to twice its size, its origin
\* then at (-2, -3), and panned from a press at (3, 1) to (5, 5).
C31_Witness ==
    /\ lastEvent.name = "mousemove"
    /\ isPanning
    /\ transform.scale = Num(2)
    /\ lastPanPoint = Some([x |-> RectLeft + 5, y |-> RectTop + 5])
    /\ transform.x = Num(-2 + 2)
    /\ transform.y = Num(-3 + 4)


\* C32: the ghost cursor is render-only state.  A pointer movement changes
\* the ghost position only in edit mode with no pan in progress, and never
\* changes the graph, the chain anchor or the selection; the ghost line is
\* drawn only in edit mode with a chain anchor that names a node of the
\* graph, from that node to the ghost position.
C32_GhostIsRenderOnly ==
    /\ [](GhostLine # Null
          => /\ mode = "edit"
             /\ activeChainStartNodeId # Null
             /\ \E n \in Nodes :
                   /\ n.id = Val(activeChainStartNodeId)
                   /\ Val(GhostLine).x1 = n.x /\ Val(GhostLine).y1 = n.y
             /\ mousePos = Some([x |-> Val(GhostLine).x2,
                                 y |-> Val(GhostLine).y2]))
    /\ [][StepOf("mousemove")
          => /\ mousePos' # mousePos => (mode = "edit" /\ ~isPanning)
             /\ graph' = graph
             /\ activeChainStartNodeId' = activeChainStartNodeId
             /\ selectedNodeId' = selectedNodeId
             /\ selectedEdgeId' = selectedEdgeId
             /\ contextMenu' = contextMenu]_vars

\* C32 witness: in edit mode the pointer has moved away from the anchor
\* node, which is joined to another node by a selected edge, and the ghost
\* line is drawn.
C32_Witness ==
    /\ lastEvent.name = "mousemove"
    /\ mode = "edit"
    /\ ~isPanning
    /\ selectedEdgeId # Null
    /\ Len(graph.edges) = 1
    /\ GhostLine # Null
    /\ Val(GhostLine).x2 # Val(GhostLine).x1


\* the path an imported edge carries for the points pts, each [y, x]
PathThrough(pts) ==
    [k \in DOMAIN pts |-> [x |-> Num(pts[k].items[2]), y |-> Num(pts[k].items[1])]]
\* the path's first point is where ed's source node is, its last where ed's
\* target node is
PathJoinsEndpoints(g, ed) ==
    LET path == Val(ed.path)
    IN  /\ \E n \in Range(g.nodes) :
              n.id = ed.sourceId /\ n.x = path[1].x /\ n.y = path[1].y
        /\ \E n \in Range(g.nodes) :
              /\ n.id = ed.targetId
              /\ n.x = path[Len(path)].x /\ n.y = path[Len(path)].y

\* C33 as claimed: an imported edge carries a path exactly when its
\* point-sequence has more than two points, and the path is then the full
\* sequence in order, from the source node's coordinates to the target's.
C33_PathIsFullSequence ==
    [][StepOf("settled.success")
       => LET d == Val(lastEvent'.target)
              g == graph'
          IN  \A i \in DOMAIN d.edges : \A ed \in Range(g.edges) :
                ed.id = EdgeIdOf(i - 1)
                => LET seq == d.edges[i].items
                   IN  /\ ed.path # Null <=> Len(seq) > 2
                       /\ ed.path # Null
                          => /\ \A k \in DOMAIN seq : IsPair(seq[k])
                             /\ Val(ed.path) = PathThrough(seq)
                             /\ PathJoinsEndpoints(g, ed)]_vars

\* C33 amended: an imported edge carries a path exactly when its
\* point-sequence has more than two well-formed points, and the path is then
\* the sequence of its well-formed points in order, from the source node's
\* coordinates to the target node's; an edge of a sequence with two
\* well-formed points carries no path.
C33_PathIsValidPoints ==
    [][StepOf("settled.success")
       => LET d == Val(lastEvent'.target)
              g == graph'
          IN  \A i \in DOMAIN d.edges : \A ed \in Range(g.edges) :
                ed.id = EdgeIdOf(i - 1)
                => LET pts == ValidPoints(d.edges[i])
                   IN  /\ ed.path # Null <=> Len(pts) > 2
                       /\ ed.path # Null
                          => /\ Val(ed.path) = PathThrough(pts)
                             /\ PathJoinsEndpoints(g, ed)]_vars

\* C33 witness: an import of a sequence of three points around a malformed
\* one and of a two-point sequence has installed an edge with a three-point
\* path and an edge without a path.
C33_Witness ==
    /\ lastEvent.name = "settled.success"
    /\ Val(lastEvent.target) =
         [seeds |-> <<>>,
          edges |-> <<Arr(<<Arr(<<4, 3>>), NotArr, Arr(<<3, 3>>), Arr(<<2, 1>>)>>),
                      Arr(<<Arr(<<2, 1>>), Arr(<<4, 3>>)>>)>>]
    /\ Len(graph.edges) = 2
    /\ graph.edges[1].path # Null /\ Len(Val(graph.edges[1].path)) = 3
    /\ graph.edges[2].path = Null


\* C34: when an edge is deleted, by key or by the context menu, the cleanup
\* keeps every node that has an edge left and the node that is the chain
\* anchor.
C34_CleanupSparesActiveNode ==
    [][(state' # state /\ lastEvent'.call = "deleteEdge")
       => \A n \in Nodes :
            (\/ \E e \in Edges' : Incident(e, n.id)
             \/ activeChainStartNodeId = Some(n.id))
            => n \in Nodes']_vars


\* C35: in every reachable state the chain anchor, when there is one, is the
\* id of a node of the graph.
C35_AnchorNeverDangles ==
    activeChainStartNodeId # Null
    => HasNode(graph.nodes, Val(activeChainStartNodeId))


\* the ids of the edges of the graph
EdgeIds == {ed.id : ed \in Edges}

\* C36: in every reachable state the selected node, the selected edge and
\* the node or edge an open context menu names are in the graph.
C36_SelectionNeverStale ==
    /\ selectedNodeId # Null => Val(selectedNodeId) \in NodeIds
    /\ selectedEdgeId # Null => Val(selectedEdgeId) \in EdgeIds
    /\ contextMenu # Null
       => /\ Val(contextMenu).nodeId # Null
             => Val(Val(contextMenu).nodeId) \in NodeIds
          /\ Val(contextMenu).edgeId # Null
             => Val(Val(contextMenu).edgeId) \in EdgeIds


\* all three images have been uploaded
AllImages ==
    originalImageRaw # Null /\ layers.mask # Null /\ layers.annotation # Null

C38_DisplayedMatchesLatest ==
    (colorMapRequests = <<>> /\ originalImageRaw # Null)
    => layers.original = Some(ColorMapped(Val(originalImageRaw), originalColorMap))


\* the edges of the graph whose two endpoints are nodes of the graph
SoundEdges == {ed \in Edges : ed.sourceId \in NodeIds /\ ed.targetId \in NodeIds}

\* C39: an edge with an endpoint that is no node of the graph is left out
\* of the drawing and of hit-testing, and every edge with both endpoints in
\* the graph is drawn: the drawn edges are exactly the sound ones, a press
\* or a right-click that lands on an edge lands on a sound one, and neither
\* the selection nor an open context menu names a defective edge.
C39_DefectiveEdgesSkipped ==
    /\ [](RenderedEdgeIds = {ed.id : ed \in SoundEdges})
    /\ [](\A ed \in Edges \ SoundEdges :
            /\ selectedEdgeId # Some(ed.id)
            /\ contextMenu # Null => Val(contextMenu).edgeId # Some(ed.id))
    /\ [][(state' # state
           /\ lastEvent'.name \in {"mousedown.edge", "rightclick.edge"})
          => \E ed \in SoundEdges : lastEvent'.target = Some(ed.id)]_vars

\* C39 witness: the graph holds an edge from a node that is gone and an
\* imported edge between two nodes, and the imported edge, the only one
\* drawn, has been right-clicked.
C39_Witness ==
    /\ lastEvent.name = "rightclick.edge"
    /\ Edges \ SoundEdges # {}
    /\ SoundEdges # {}
    /\ \E ed \in SoundEdges : selectedEdgeId = Some(ed.id)
    /\ contextMenu # Null

====
